---------------------------- MODULE Spec2Model ----------------------------
(***************************************************************************)
(* A model of parts of the proxy:                                          *)
(*                                                                         *)
(*   - the HTTP gateway (linkerd/app/gateway/src/http.rs): construction of *)
(*     an HttpGateway from (profile, inbound target), its readiness and    *)
(*     its call() (loop detection on Forwarded, header rewriting);         *)
(*   - server-side TLS (linkerd/tls/src/server): SNI detection over a      *)
(*     peeked/buffered byte stream and the handshake service built from    *)
(*     the detection result;                                               *)
(*   - the inbound server (linkerd/app/inbound/src/lib.rs): the stack of   *)
(*     layers an accepted connection passes, from the port-skip switch to  *)
(*     the HTTP server or the TCP forwarder;                               *)
(*   - the per-target service cache that push_cache(cache_max_idle_age)    *)
(*     puts around the per-target stacks (inbound lib.rs, outbound         *)
(*     tcp/logical.rs), used by callers that get, poll, call and drop      *)
(*     cached services as the outbound HTTP tests do.                      *)
(*                                                                         *)
(* Strings are sequences of one-character strings, so that split(';'),     *)
(* split('=') and format!() are computed as the code computes them.        *)
(* Option<T> is a sequence of length 0 (None) or 1 (Some).                 *)
(***************************************************************************)
EXTENDS Integers, Sequences, FiniteSets, TLC

VARIABLES
    \* ---- gateway ----
    local_id,       \* NewHttpGateway.local_id : tls::PeerIdentity
    gw_target,      \* the (profile, target) given to new_service, or <<>>
    gw,             \* the HttpGateway value, tag "Uninit" before new_service
    outbound_built, \* the Logical targets given to outbound.new_service
    polled,         \* result of the last poll_ready not yet used by a call
    request,        \* the request given to the last call(), or <<>>
    response,       \* what the last call() returned
    outbound_req,   \* the request the last call() passed to outbound.call
    \* ---- server TLS ----
    det_impl,       \* which detector runs: the detect of mod.rs or DetectSni
    identity,       \* NewHandshake.identity : Option<L>
    wire,           \* every byte the peer sends on the connection
    avail,          \* how many bytes of wire reached the socket so far
    peer_closed,    \* the peer closed after its last byte
    consumed,       \* how many bytes detection read off the socket
    dpc,            \* position of detect(): "peek", "read", "done", "failed"
    buf,            \* the BytesMut that detect() reads into
    det,            \* result of detect(): <<>> or <<[sni, prefix]>>
    det_path,       \* which exit of detect() produced det
    hs,             \* the Handshake service, tag "Uninit" before new_service
    hpc,            \* position of Handshake::call
    inner_built,    \* the (tls, target) metas given to inner.new_service
    inner_io,       \* the io the inner service was called with
    accept_out,     \* what TlsAcceptor::accept and the session yielded
    conn_result,    \* result of the connection's future
    \* ---- inbound server ----
    disable_ports,  \* Config.disable_protocol_detection_for_ports
    require_ports,  \* Config.require_identity_for_inbound_ports
    inbound_port,   \* the port of PreventLoop: the proxy's own inbound port
    in_addrs,       \* the listen::Addrs of the accepted connection
    in_stack,       \* the layers the connection has still to pass, outermost first
    in_path,        \* the name of the stack in_stack is taken from
    in_target,      \* the target handed to the next layer
    in_trace,       \* the layers that acted on the connection, in order
    in_conn,        \* the addresses connected to on behalf of the connection
    in_result,      \* how the connection ended, or InPending
    \* ---- per-target cache ----
    ca_map,         \* the lookup map: per key <<>> or <<entry>>
    ca_builds,      \* how many constructions were started (the build counter)
    ca_made,        \* the instances whose construction completed
    ca_tracked,     \* the instances constructed and not yet dropped
    ca_evicted,     \* the instances the sweeper removed, and how idle they were
    ca_call,        \* per caller: position, key, service held, response body
    ca_overlap,     \* the pairs of callers whose get_or_make windows overlapped
    \* ---- HTTP server ----
    sv_inner,       \* readiness of the service inside FailFast
    sv_unready,     \* ticks since the inner service became unready
    sv_req,         \* per request: position, how it was dispatched, error, what the client got
    sv_conn,        \* the client connection: open, closing, closed or error
    \* ---- outbound request keying ----
    ob_addrs,       \* the listen::Addrs of the connection the request came on
    ob_req,         \* the request given to recognize, or <<>>
    ob_logical,     \* the Logical that recognize returned, or <<>>
    \* ---- inbound HTTP router ----
    rt_addr,        \* the target address of the accepted connection
    rt_req,         \* the request as the HTTP server hands it to the router
    rt_stack,       \* the layers the request has still to pass, outermost first
    rt_cur,         \* the request as the next layer gets it
    rt_key,         \* the Target the router computed for the request, or <<>>
    rt_trace,       \* the layers the request passed, in order
    rt_delivered,   \* the request the per-target service got, or <<>>
    \* ---- discovery allow-list ----
    pm_suffixes,    \* the configured name suffixes
    pm_networks,    \* the configured networks
    pm_addr,        \* the target of the last filtered request, or <<>>
    pm_out,         \* the result of the filter for it, or <<>>
    pm_inner,       \* the target the inner (discovering) service was called with, or <<>>
    \* ---- client identity of a TLS peer ----
    ci_certs,       \* the peer certificates of the session, or <<>> when it has none
    ci_tls,         \* the ServerTls value of the finished handshake, or <<>>
    \* ---- endpoint discovery of one concrete target ----
    ep_queue,       \* the updates sent on the resolution's channel and not yet consumed
    ep_sent,        \* how many updates were sent
    ep_applied,     \* the updates the consumer applied, in order
    ep_table,       \* the addresses of the consumer's endpoint table
    ep_state,       \* active, or not_found after DoesNotExist
    ep_pick,        \* the outcome of the call in progress, or <<>>
    \* ---- profile stack with fallback (when_unready) ----
    wu_primary,     \* whether the profile stack is ready
    wu_state,       \* the state of the switch: Primary, Waiting or Secondary
    wu_timer,       \* the ticks since the switch's timer was started
    wu_req,         \* per request, where it is, which stack served it and how long it waited
    \* ---- upstream connections of the inbound proxy ----
    cn_orig,        \* the original destination address of the accepted connection
    cn_via,         \* the stack that connects: tcp_forward, the direct forwarder or the HTTP router
    cn_endpoint,    \* the TcpEndpoint given to the connect stack, or <<>>
    cn_dialed,      \* the addresses ConnectTcp was given, in order
    cn_last,        \* how the last connect ended
    \* ---- outbound TCP logical switch ----
    tl_logical,     \* the Logical target: its profile snapshot (or <<>> without profile) and its original destination
    tl_choice,      \* what the switch returned for the target, or <<>>
    tl_resolved,    \* the concrete addresses a resolution and a balancer were created for
    tl_forwarded,   \* the endpoints connections were forwarded to directly
    \* ---- test resolver ----
    rs_kind,        \* which resolver the state belongs to: "dst" or "profiles"
    rs_endpoints,   \* State.endpoints : HashMap<A, E>
    rs_only,        \* State.only : AtomicBool
    rs_streams,     \* the channels made so far, by stream number
    rs_log          \* the configure and resolve calls made so far, in order

gwVars == <<local_id, gw_target, gw, outbound_built, polled, request,
            response, outbound_req>>

tlsVars == <<det_impl, identity, wire, avail, peer_closed, consumed, dpc, buf, det,
             det_path, hs, hpc, inner_built, inner_io, accept_out,
             conn_result>>

inVars == <<disable_ports, require_ports, inbound_port, in_addrs, in_stack,
            in_path, in_target, in_trace, in_conn, in_result>>

caVars == <<ca_map, ca_builds, ca_made, ca_tracked, ca_evicted, ca_call, ca_overlap>>

svVars == <<sv_inner, sv_unready, sv_req, sv_conn>>

obVars == <<ob_addrs, ob_req, ob_logical>>

rtVars == <<rt_addr, rt_req, rt_stack, rt_cur, rt_key, rt_trace, rt_delivered>>

pmVars == <<pm_suffixes, pm_networks, pm_addr, pm_out, pm_inner>>

ciVars == <<ci_certs, ci_tls>>

epVars == <<ep_queue, ep_sent, ep_applied, ep_table, ep_state, ep_pick>>

wuVars == <<wu_primary, wu_state, wu_timer, wu_req>>

cnVars == <<cn_orig, cn_via, cn_endpoint, cn_dialed, cn_last>>

tlVars == <<tl_logical, tl_choice, tl_resolved, tl_forwarded>>

rsVars == <<rs_kind, rs_endpoints, rs_only, rs_streams, rs_log>>

vars == <<gwVars, tlsVars, inVars, caVars, svVars, obVars, rtVars, pmVars, ciVars, epVars, wuVars, cnVars, tlVars, rsVars>>

\* What an action of one component leaves alone.
notGw == <<tlsVars, inVars, caVars, svVars, obVars, rtVars, pmVars, ciVars, epVars, wuVars, cnVars, tlVars, rsVars>>
notTls == <<gwVars, inVars, caVars, svVars, obVars, rtVars, pmVars, ciVars, epVars, wuVars, cnVars, tlVars, rsVars>>
notIn == <<gwVars, tlsVars, caVars, svVars, obVars, rtVars, pmVars, ciVars, epVars, wuVars, cnVars, tlVars, rsVars>>
notCa == <<gwVars, tlsVars, inVars, svVars, obVars, rtVars, pmVars, ciVars, epVars, wuVars, cnVars, tlVars, rsVars>>
notSv == <<gwVars, tlsVars, inVars, caVars, obVars, rtVars, pmVars, ciVars, epVars, wuVars, cnVars, tlVars, rsVars>>
notOb == <<gwVars, tlsVars, inVars, caVars, svVars, rtVars, pmVars, ciVars, epVars, wuVars, cnVars, tlVars, rsVars>>
notRt == <<gwVars, tlsVars, inVars, caVars, svVars, obVars, pmVars, ciVars, epVars, wuVars, cnVars, tlVars, rsVars>>
notPm == <<gwVars, tlsVars, inVars, caVars, svVars, obVars, rtVars, ciVars, epVars, wuVars, cnVars, tlVars, rsVars>>
notCi == <<gwVars, tlsVars, inVars, caVars, svVars, obVars, rtVars, pmVars, epVars, wuVars, cnVars, tlVars, rsVars>>
notEp == <<gwVars, tlsVars, inVars, caVars, svVars, obVars, rtVars, pmVars, ciVars, wuVars, cnVars, tlVars, rsVars>>
notWu == <<gwVars, tlsVars, inVars, caVars, svVars, obVars, rtVars, pmVars, ciVars, epVars, cnVars, tlVars, rsVars>>
notCn == <<gwVars, tlsVars, inVars, caVars, svVars, obVars, rtVars, pmVars, ciVars, epVars, wuVars, tlVars, rsVars>>
notTl == <<gwVars, tlsVars, inVars, caVars, svVars, obVars, rtVars, pmVars, ciVars, epVars, wuVars, cnVars, rsVars>>
notRs == <<gwVars, tlsVars, inVars, caVars, svVars, obVars, rtVars, pmVars, ciVars, epVars, wuVars, cnVars, tlVars>>

-----------------------------------------------------------------------------
(* Bounds of the model *)

\* The largest number of Forwarded values on an incoming request.
MaxFwd == 2

\* The largest number of Host values on an incoming request.
MaxHost == 1

\* The size of the peek buffer of detect(), scaled down from PEEK_CAPACITY
\* (512 bytes).
PeekCap == 3

\* The initial capacity of the read buffer of detect(), scaled down from
\* BUFFER_CAPACITY (8192 bytes).
BufferCap == 5

\* The largest number of bytes that follow a ClientHello on the wire.
MaxTrail == 1

\* The number of tasks that use the cache at the same time.
MaxCallers == 2

\* cache_max_idle_age in clock ticks, scaled down from the 60 s of the test
\* configuration.
MaxIdle == 2

\* The largest number of constructions, of all keys, that a run follows.
MaxBuilds == 2

\* The number of requests a client sends on one connection.
MaxReqs == 2

\* dispatch_timeout in clock ticks, scaled down from the 3 s of the test
\* configuration.
MaxDispatch == 2
\* How many updates a resolution's sender sends.
MaxUpdates == 2
\* The profile idle timeout, in ticks.
ProfileIdleTimeout == 2
\* How many times an endpoint is connected to.
MaxDials == 2
\* How many configure and resolve calls a test makes on its resolver.
MaxResolverCalls == 3

-----------------------------------------------------------------------------
(* Options and strings *)

None == <<>>
Some(x) == <<x>>
IsSome(o) == Len(o) = 1
Unwrap(o) == o[1]

\* All sequences over S of length at most n.
SeqUpTo(S, n) == UNION {[1..k -> S] : k \in 0..n}

\* The index of the first c in s, or 0.
IndexOf(s, c) ==
    IF \E i \in 1..Len(s) : s[i] = c
    THEN CHOOSE i \in 1..Len(s) : s[i] = c /\ \A j \in 1..(i - 1) : s[j] # c
    ELSE 0

RECURSIVE Split(_, _)
\* str::split(sep): the pieces between separators; always at least one piece.
Split(s, sep) ==
    LET i == IndexOf(s, sep) IN
    IF i = 0 THEN <<s>>
    ELSE <<SubSeq(s, 1, i - 1)>> \o Split(SubSeq(s, i + 1, Len(s)), sep)

RECURSIVE ToDigits(_)
\* Display of an unsigned integer.
ToDigits(n) ==
    LET D(k) == <<"0", "1", "2", "3", "4", "5", "6", "7", "8", "9">>[k + 1] IN
    IF n < 10 THEN <<D(n)>> ELSE ToDigits(n \div 10) \o <<D(n % 10)>>

-----------------------------------------------------------------------------
(* Gateway: values *)

\* Identity names.
IdGw == <<"g", "w">>
IdClient == <<"c", "l">>

\* DNS names.
NameSvc == <<"s", "v">>
NameWeb == <<"w", "b">>

\* A byte that is not visible ASCII (HeaderValue::to_str fails on it).
Opaque == "0xFF"

\* tls::PeerIdentity = Conditional<identity::Name, ReasonForNoPeerName>
PeerIdentities ==
    {[some |-> TRUE, name |-> IdClient], [some |-> FALSE, name |-> <<>>]}

LocalIdentities ==
    {[some |-> TRUE, name |-> IdGw], [some |-> FALSE, name |-> <<>>]}

\* inbound::Target.dst : Addr, a NameAddr or a SocketAddr.
Ports == {80, 443}
Addrs == {[kind |-> "Name", name |-> n, port |-> p] : n \in {NameWeb}, p \in Ports}
         \cup {[kind |-> "Socket", name |-> <<>>, port |-> p] : p \in Ports}

\* Option<profiles::Receiver>; the receiver's current snapshot carries
\* name : Option<dns::Name>.
Profiles == {None, Some([name |-> None]), Some([name |-> Some(NameSvc)])}

\* inbound::Target.http_version
TargetVersions == {"Http1", "H2"}

\* http::Version of a request.
Versions == {"HTTP_10", "HTTP_11", "HTTP_2", "HTTP_3"}


\* Incoming Forwarded header values (bytes of a HeaderValue).
FwdLoop == <<"b", "y", "=", "g", "w">>
FwdOther == <<"b", "y", "=", "o", "t">>
FwdForBy == <<"f", "o", "r", "=", "c", "l", ";", "b", "y", "=", "g", "w">>
FwdSecondBy == <<"b", "y", "=", "o", "t", ";", "b", "y", "=", "g", "w">>
FwdOpaque == <<"b", "y", "=", "g", "w", ";", "x", "=", Opaque>>
FwdUpper == <<"B", "y", "=", "g", "w">>
FwdSpace == <<"f", "o", "r", "=", "c", "l", ";", " ", "b", "y", "=", "g", "w">>
FwdTwoEq == <<"b", "y", "=", "g", "w", "=", "x">>

FwdValues == {FwdLoop, FwdOther, FwdForBy, FwdSecondBy, FwdOpaque, FwdUpper,
              FwdSpace, FwdTwoEq}

\* Incoming Host header values.
HostOld == <<"o", "l", "d">>
HostValues == {HostOld}

Requests ==
    [version : Versions,
     forwarded : SeqUpTo(FwdValues, MaxFwd),
     host : SeqUpTo(HostValues, MaxHost)]

InboundTargets ==
    [dst : Addrs, tls_client_id : PeerIdentities, http_version : TargetVersions]

\* HttpError values: a kind and a message.
HttpError(kind, msg) == [tag |-> "Err", kind |-> kind, msg |-> msg]
NoResponse == [tag |-> "None", kind |-> "", msg |-> ""]
OutboundFuture == [tag |-> "Outbound", kind |-> "", msg |-> ""]

NotPolled == [res |-> "NotPolled", inner |-> "NotPolled"]

-----------------------------------------------------------------------------
(* Gateway: operations *)

\* NameAddr::as_http_authority: the name, and ":port" unless the port is 80.
as_http_authority(dst) ==
    IF dst.port = 80 THEN dst.name ELSE dst.name \o <<":">> \o ToDigits(dst.port)

\* The HttpGateway enum.
GwUninit ==
    [tag |-> "Uninit", name |-> <<>>, local_identity |-> <<>>,
     host_header |-> <<>>, forwarded_header |-> <<>>]
GwNoAuthority == [GwUninit EXCEPT !.tag = "NoAuthority"]
GwNoIdentity == [GwUninit EXCEPT !.tag = "NoIdentity"]
GwBadDomain(n) == [GwUninit EXCEPT !.tag = "BadDomain", !.name = n]

\* Mutant of HttpGateway::new: the stamp names the client as by and the
\* gateway as for.
HttpGateway_new_by_source(dst, source_identity, local_identity) ==
    LET host == as_http_authority(dst)
        fwd == <<"b", "y", "=">> \o source_identity
               \o <<";", "f", "o", "r", "=">> \o local_identity
               \o <<";", "h", "o", "s", "t", "=">> \o host
               \o <<";", "p", "r", "o", "t", "o", "=", "h", "t", "t", "p", "s">>
    IN [tag |-> "Outbound", name |-> <<>>, local_identity |-> local_identity,
        host_header |-> host, forwarded_header |-> fwd]

\* HttpGateway::new
HttpGateway_new(dst, source_identity, local_identity) ==
    LET host == as_http_authority(dst)
        fwd == <<"b", "y", "=">> \o local_identity
               \o <<";", "f", "o", "r", "=">> \o source_identity
               \o <<";", "h", "o", "s", "t", "=">> \o host
               \o <<";", "p", "r", "o", "t", "o", "=", "h", "t", "t", "p", "s">>
    IN [tag |-> "Outbound", name |-> <<>>, local_identity |-> local_identity,
        host_header |-> host, forwarded_header |-> fwd]

\* Mutant of fwd_by: the last by parameter of the value is taken.
fwd_by_last(fwd) ==
    LET kvs == Split(fwd, ";")
        Key(i) == Split(kvs[i], "=")[1]
        hits == {i \in 1..Len(kvs) : Key(i) = <<"b", "y">>}
    IN IF hits = {} THEN None
       ELSE LET i == CHOOSE h \in hits : \A k \in hits : h >= k
                kv == Split(kvs[i], "=")
            IN IF Len(kv) >= 2 THEN Some(kv[2]) ELSE None

\* HttpGateway::fwd_by: Option<&str>
fwd_by(fwd) ==
    LET kvs == Split(fwd, ";")
        Key(i) == Split(kvs[i], "=")[1]
        hits == {i \in 1..Len(kvs) : Key(i) = <<"b", "y">>}
    IN IF hits = {} THEN None
       ELSE LET i == CHOOSE h \in hits : \A k \in hits : h <= k
                kv == Split(kvs[i], "=")
            IN IF Len(kv) >= 2 THEN Some(kv[2]) ELSE None

\* HeaderValue::to_str: Some(the string) when every byte is visible ASCII.
to_str(h) == IF \A i \in 1..Len(h) : h[i] # Opaque THEN Some(h) ELSE None

\* Mutant of LoopFound: only the first Forwarded value is examined.
LoopFoundHeadOnly(headers, local_identity) ==
    /\ headers # <<>>
    /\ LET s == to_str(Head(headers))
           by == IF IsSome(s) THEN fwd_by(Unwrap(s)) ELSE None
       IN IsSome(by) /\ Unwrap(by) = local_identity

RECURSIVE LoopFound(_, _)
\* The loop over get_all(FORWARDED) in HttpGateway::call: whether it returns
\* the gateway_loop error.
LoopFound(headers, local_identity) ==
    IF headers = <<>> THEN FALSE
    ELSE LET s == to_str(Head(headers))
             by == IF IsSome(s) THEN fwd_by(Unwrap(s)) ELSE None
         IN IF IsSome(by) /\ Unwrap(by) = local_identity THEN TRUE
            ELSE LoopFound(Tail(headers), local_identity)

\* Mutant of new_service: NoIdentity only when both identities are absent.
new_service_either_identity(local, profile, target) ==
    IF ~(target.tls_client_id.some \/ local.some)
    THEN [gw |-> GwNoIdentity, built |-> <<>>]
    ELSE LET name == IF IsSome(profile) THEN Unwrap(profile).name ELSE None IN
         IF IsSome(name)
         THEN LET dst == [name |-> Unwrap(name), port |-> target.dst.port]
                  logical == [profile |-> profile,
                              protocol |-> target.http_version,
                              orig_dst |-> [ip |-> <<0, 0, 0, 0>>, port |-> dst.port]]
              IN [gw |-> HttpGateway_new(dst, target.tls_client_id.name, local.name),
                  built |-> <<logical>>]
         ELSE IF target.dst.kind = "Name"
              THEN [gw |-> GwBadDomain(target.dst.name), built |-> <<>>]
              ELSE [gw |-> GwNoAuthority, built |-> <<>>]

\* Mutant of new_service: the name of the destination is preferred to the
\* name of the profile.
new_service_dst_name_first(local, profile, target) ==
    IF ~(target.tls_client_id.some /\ local.some)
    THEN [gw |-> GwNoIdentity, built |-> <<>>]
    ELSE LET pname == IF IsSome(profile) THEN Unwrap(profile).name ELSE None
             name == IF target.dst.kind = "Name" THEN Some(target.dst.name)
                     ELSE pname
         IN
         IF IsSome(name)
         THEN LET dst == [name |-> Unwrap(name), port |-> target.dst.port]
                  logical == [profile |-> profile,
                              protocol |-> target.http_version,
                              orig_dst |-> [ip |-> <<0, 0, 0, 0>>, port |-> dst.port]]
              IN [gw |-> HttpGateway_new(dst, target.tls_client_id.name, local.name),
                  built |-> <<logical>>]
         ELSE [gw |-> GwNoAuthority, built |-> <<>>]

\* Mutant of new_service: the outbound service is built before the name of
\* the destination is settled.
new_service_builds_early(local, profile, target) ==
    IF ~(target.tls_client_id.some /\ local.some)
    THEN [gw |-> GwNoIdentity, built |-> <<>>]
    ELSE LET name == IF IsSome(profile) THEN Unwrap(profile).name ELSE None
             logical == [profile |-> profile,
                         protocol |-> target.http_version,
                         orig_dst |-> [ip |-> <<0, 0, 0, 0>>, port |-> target.dst.port]]
         IN
         IF IsSome(name)
         THEN LET dst == [name |-> Unwrap(name), port |-> target.dst.port]
              IN [gw |-> HttpGateway_new(dst, target.tls_client_id.name, local.name),
                  built |-> <<logical>>]
         ELSE IF target.dst.kind = "Name"
              THEN [gw |-> GwBadDomain(target.dst.name), built |-> <<logical>>]
              ELSE [gw |-> GwNoAuthority, built |-> <<logical>>]

\* NewHttpGateway::new_service: the service, and the targets it gave to
\* outbound.new_service.
new_service(local, profile, target) ==
    IF ~(target.tls_client_id.some /\ local.some)
    THEN [gw |-> GwNoIdentity, built |-> <<>>]
    ELSE LET name == IF IsSome(profile) THEN Unwrap(profile).name ELSE None IN
         IF IsSome(name)
         THEN LET dst == [name |-> Unwrap(name), port |-> target.dst.port]
                  logical == [profile |-> profile,
                              protocol |-> target.http_version,
                              orig_dst |-> [ip |-> <<0, 0, 0, 0>>, port |-> dst.port]]
              IN [gw |-> HttpGateway_new(dst, target.tls_client_id.name, local.name),
                  built |-> <<logical>>]
         ELSE IF target.dst.kind = "Name"
              THEN [gw |-> GwBadDomain(target.dst.name), built |-> <<>>]
              ELSE [gw |-> GwNoAuthority, built |-> <<>>]

\* Mutant of poll_ready: an Outbound gateway is ready without asking its
\* inner service.
poll_ready_always_ok(g, inner) ==
    IF g.tag = "Outbound" THEN [res |-> "Ok", inner |-> inner]
    ELSE [res |-> "Ok", inner |-> "NotPolled"]

\* HttpGateway::poll_ready, given what the inner outbound service's
\* poll_ready returns.
poll_ready(g, inner) ==
    IF g.tag = "Outbound" THEN [res |-> inner, inner |-> inner]
    ELSE [res |-> "Ok", inner |-> "NotPolled"]

\* HttpGateway::call, the arms of the three error states.
call_error_state(g) ==
    CASE g.tag = "NoAuthority" ->
           [response |-> HttpError("not_found", "no authority"), outbound |-> None, gw |-> g]
      [] g.tag = "NoIdentity" ->
           [response |-> HttpError("identity_required", "no identity"), outbound |-> None, gw |-> g]
      [] g.tag = "BadDomain" ->
           [response |-> HttpError("not_found", "bad domain"), outbound |-> None, gw |-> g]

\* Mutant of call: the Forwarded header is inserted, replacing the values
\* the request came with.
call_insert_forwarded(g, req) ==
    IF g.tag # "Outbound" THEN call_error_state(g)
    ELSE IF LoopFound(req.forwarded, g.local_identity)
    THEN [response |-> HttpError("gateway_loop", ""), outbound |-> None, gw |-> g]
    ELSE LET r1 == [req EXCEPT !.forwarded = <<g.forwarded_header>>]
             r2 == IF r1.version \in {"HTTP_11", "HTTP_10"}
                   THEN [r1 EXCEPT !.host = <<g.host_header>>]
                   ELSE r1
         IN [response |-> OutboundFuture, outbound |-> Some(r2), gw |-> g]

\* Mutant of call: the Host header is rewritten for HTTP/1.1 only.
call_host_http11_only(g, req) ==
    IF g.tag # "Outbound" THEN call_error_state(g)
    ELSE IF LoopFound(req.forwarded, g.local_identity)
    THEN [response |-> HttpError("gateway_loop", ""), outbound |-> None, gw |-> g]
    ELSE LET r1 == [req EXCEPT !.forwarded = Append(@, g.forwarded_header)]
             r2 == IF r1.version \in {"HTTP_11"}
                   THEN [r1 EXCEPT !.host = <<g.host_header>>]
                   ELSE r1
         IN [response |-> OutboundFuture, outbound |-> Some(r2), gw |-> g]

\* HttpGateway::call: the returned future, the request given to
\* outbound.call (if any) and the service after the call.
call(g, req) ==
    CASE g.tag = "Outbound" ->
           IF LoopFound(req.forwarded, g.local_identity)
           THEN [response |-> HttpError("gateway_loop", ""), outbound |-> None, gw |-> g]
           ELSE LET r1 == [req EXCEPT !.forwarded = Append(@, g.forwarded_header)]
                    r2 == IF r1.version \in {"HTTP_11", "HTTP_10"}
                          THEN [r1 EXCEPT !.host = <<g.host_header>>]
                          ELSE r1
                IN [response |-> OutboundFuture, outbound |-> Some(r2), gw |-> g]
      [] OTHER -> call_error_state(g)

-----------------------------------------------------------------------------
(* Gateway: the state machine *)

GwInitial ==
    /\ gw_target = <<>>
    /\ gw = GwUninit
    /\ outbound_built = <<>>
    /\ polled = NotPolled
    /\ request = None
    /\ response = NoResponse
    /\ outbound_req = None

GwInit ==
    /\ local_id \in LocalIdentities
    /\ GwInitial

\* The gateway part when it is not the part under study.
GwIdle ==
    /\ local_id = [some |-> FALSE, name |-> <<>>]
    /\ GwInitial

\* new_service((profile, target)) on the NewHttpGateway
GwNewService ==
    /\ gw.tag = "Uninit"
    /\ \E profile \in Profiles, target \in InboundTargets :
          LET r == new_service(local_id, profile, target) IN
          /\ gw_target' = <<[profile |-> profile, target |-> target]>>
          /\ gw' = r.gw
          /\ outbound_built' = outbound_built \o r.built
    /\ UNCHANGED <<local_id, polled, request, response, outbound_req>>
    /\ UNCHANGED notGw

\* poll_ready on the HttpGateway.  request, response and outbound_req record
\* the call in progress: they are cleared when the caller turns to the next
\* request and polls again.
GwPollReady ==
    /\ gw.tag # "Uninit"
    /\ \E inner \in {"Pending", "Ok", "Err"} :
          polled' = poll_ready(gw, inner)
    /\ request' = None
    /\ response' = NoResponse
    /\ outbound_req' = None
    /\ UNCHANGED <<local_id, gw_target, gw, outbound_built>>
    /\ UNCHANGED notGw

\* call(request) on the HttpGateway, after poll_ready returned Ready(Ok)
GwCall ==
    /\ gw.tag # "Uninit"
    /\ polled.res = "Ok"
    /\ \E req \in Requests :
          LET r == call(gw, req) IN
          /\ request' = Some(req)
          /\ response' = r.response
          /\ outbound_req' = r.outbound
          /\ gw' = r.gw
    /\ polled' = NotPolled
    /\ UNCHANGED <<local_id, gw_target, outbound_built>>
    /\ UNCHANGED notGw


GwNext == GwNewService \/ GwPollReady \/ GwCall

-----------------------------------------------------------------------------
(* Server TLS: values *)

\* Identity names of the TLS part.
LocalName == "local.test"
OtherName == "other.test"

\* The first byte of a TLS handshake record.
HandshakeByte == 22

\* The bytes that encode a server name in the ClientHello of this model.
SniLocalByte == 101
SniOtherByte == 102

\* A ClientHello of n >= 3 bytes: the record byte, the length of the
\* message, padding, and the server name (0: no SNI extension).
Hello(n, sni) == <<HandshakeByte, n>> \o [i \in 1..(n - 3) |-> 0] \o <<sni>>

\* The byte streams a peer may send.
Trails == SeqUpTo({7}, MaxTrail)
Wires ==
    {h \o t : h \in {Hello(n, b) : n \in {3, PeekCap + 1},
                                   b \in {SniLocalByte, SniOtherByte, 0}},
              t \in Trails}
    \cup {SubSeq(Hello(PeekCap + 1, SniLocalByte), 1, k) : k \in 0..PeekCap}
    \cup {SubSeq(Hello(BufferCap + 2, SniLocalByte), 1, k) :
             k \in {BufferCap + 1, BufferCap + 2}}
    \cup {<<71, 69, 84, 32>>}

\* ConditionalServerTls
TlsEstablished(client_id, alpn) ==
    [tag |-> "Established", client_id |-> client_id,
     negotiated_protocol |-> alpn, sni |-> None, reason |-> ""]
TlsPassthru(sni) ==
    [tag |-> "Passthru", client_id |-> None, negotiated_protocol |-> None,
     sni |-> Some(sni), reason |-> ""]
NoTls(reason) ==
    [tag |-> "None", client_id |-> None, negotiated_protocol |-> None,
     sni |-> None, reason |-> reason]

\* The Handshake enum.
HsUninit == [tag |-> "Uninit", identity |-> None, tls |-> None]
HsEnabled(id) == [tag |-> "Enabled", identity |-> Some(id), tls |-> None]
HsDisabled(tls) == [tag |-> "Disabled", identity |-> None, tls |-> Some(tls)]

\* What the peer's certificate and ALPN yield after a successful handshake.
ClientIds == {None, Some("client.test")}
Alpns == {None, Some("h2")}

-----------------------------------------------------------------------------
(* Server TLS: operations *)

\* client_hello::parse_sni: Ok(Some(sni)), Ok(None) when the input is not a
\* ClientHello or carries no server name, Err(Incomplete) when the input
\* ends before the message does.
parse_sni(input) ==
    IF Len(input) < 1 THEN [ok |-> FALSE, sni |-> None]
    ELSE IF input[1] # HandshakeByte THEN [ok |-> TRUE, sni |-> None]
    ELSE IF Len(input) < 2 THEN [ok |-> FALSE, sni |-> None]
    ELSE IF input[2] < 3 THEN [ok |-> TRUE, sni |-> None]
    ELSE IF Len(input) < input[2] THEN [ok |-> FALSE, sni |-> None]
    ELSE LET b == input[input[2]] IN
         [ok |-> TRUE,
          sni |-> CASE b = SniLocalByte -> Some(LocalName)
                    [] b = SniOtherByte -> Some(OtherName)
                    [] OTHER -> None]

\* BytesMut::capacity: the bytes the buffer holds without reallocating, the
\* bytes already in it included; it is never 0 for a buffer made
\* with_capacity(BUFFER_CAPACITY).  read_buf reserves more room when the
\* buffer is full (one byte here, scaled down from 64).
capacity(b) == IF Len(b) < BufferCap THEN BufferCap ELSE Len(b) + 1

\* PrefixedIo: the bytes replayed before those still unread on the socket.
PrefixedIo(prefix, io_consumed) == [prefix |-> prefix, consumed |-> io_consumed]

\* The first step of detect(): peek into a zeroed array of PEEK_CAPACITY
\* bytes and parse the whole array.
detect_peek(peeked) ==
    LET sz == Len(peeked)
        array == [i \in 1..PeekCap |-> IF i <= sz THEN peeked[i] ELSE 0]
        r == parse_sni(array)
    IN IF r.ok
       THEN [done |-> TRUE, path |-> "peek",
             out |-> Some([sni |-> r.sni, io |-> PrefixedIo(<<>>, 0)])]
       ELSE [done |-> FALSE, path |-> "", out |-> None]

\* One iteration of the read loop of detect(): b is the buffer after
\* read_buf returned n bytes, c the bytes consumed from the socket so far.
detect_read(b, n, c) ==
    IF n = 0
    THEN [done |-> TRUE, path |-> "eof",
          out |-> Some([sni |-> None, io |-> PrefixedIo(b, c)])]
    ELSE LET r == parse_sni(b) IN
         IF r.ok
         THEN [done |-> TRUE, path |-> "buffered",
               out |-> Some([sni |-> r.sni, io |-> PrefixedIo(<<>>, c)])]
         ELSE IF capacity(b) = 0
              THEN [done |-> TRUE, path |-> "exhausted",
                    out |-> Some([sni |-> None, io |-> PrefixedIo(b, c)])]
              ELSE [done |-> FALSE, path |-> "", out |-> None]

\* DetectSni::detect, one iteration of its read loop: b is the buffer after
\* read_buf returned n bytes.
DetectSni_detect(b, n) ==
    IF n = 0
    THEN [done |-> TRUE, path |-> "eof", sni |-> None]
    ELSE LET r == parse_sni(b) IN
         IF r.ok
         THEN [done |-> TRUE, path |-> "buffered", sni |-> r.sni]
         ELSE IF capacity(b) = 0
              THEN [done |-> TRUE, path |-> "exhausted", sni |-> None]
              ELSE [done |-> FALSE, path |-> "", sni |-> None]

\* NewDetectService around DetectSni: the buffer it lent to the detector is
\* replayed before the rest of the connection.
NewDetectService_detect(b, n, c) ==
    LET r == DetectSni_detect(b, n) IN
    [done |-> r.done, path |-> r.path,
     out |-> IF r.done THEN Some([sni |-> r.sni, io |-> PrefixedIo(b, c)])
             ELSE None]

\* Mutant of NewDetectService_timeout: a timeout counts as no protocol
\* detected, and the connection goes on to the inner service.
NewDetectService_timeout_as_none(b, c) ==
    [dpc |-> "done", path |-> "timeout",
     out |-> Some([sni |-> None, io |-> PrefixedIo(b, c)]),
     result |-> "None"]

\* NewDetectService: the detector did not return within the timeout; the
\* future of the connection fails with DetectTimeout.
NewDetectService_timeout(b, c) ==
    [dpc |-> "failed", path |-> "timeout", out |-> None,
     result |-> "DetectTimeout"]

\* Mutant of NewHandshake_new_service: a handshake for any server name.
NewHandshake_new_service_any_sni(ident, sni) ==
    CASE IsSome(ident) /\ IsSome(sni) ->
           [hs |-> HsEnabled(Unwrap(ident)), built |-> <<>>]
      [] ~IsSome(ident) ->
           [hs |-> HsDisabled(NoTls("NoClientHello")),
            built |-> <<NoTls("NoClientHello")>>]
      [] OTHER ->
           [hs |-> HsDisabled(NoTls("Disabled")), built |-> <<NoTls("Disabled")>>]

\* Mutant of NewHandshake_new_service: without a local identity a detected
\* server name is still passed through as TLS.
NewHandshake_new_service_passthru_anyway(ident, sni) ==
    CASE IsSome(sni) ->
           IF IsSome(ident) /\ Unwrap(sni) = Unwrap(ident)
           THEN [hs |-> HsEnabled(Unwrap(ident)), built |-> <<>>]
           ELSE [hs |-> HsDisabled(TlsPassthru(Unwrap(sni))),
                 built |-> <<TlsPassthru(Unwrap(sni))>>]
      [] ~IsSome(ident) ->
           [hs |-> HsDisabled(NoTls("NoClientHello")),
            built |-> <<NoTls("NoClientHello")>>]
      [] OTHER ->
           [hs |-> HsDisabled(NoTls("Disabled")), built |-> <<NoTls("Disabled")>>]

\* NewHandshake::new_service: the service, and the metas it gave to
\* inner.new_service.
NewHandshake_new_service(ident, sni) ==
    CASE IsSome(ident) /\ IsSome(sni) ->
           IF Unwrap(sni) = Unwrap(ident)
           THEN [hs |-> HsEnabled(Unwrap(ident)), built |-> <<>>]
           ELSE [hs |-> HsDisabled(TlsPassthru(Unwrap(sni))),
                 built |-> <<TlsPassthru(Unwrap(sni))>>]
      [] ~IsSome(ident) ->
           [hs |-> HsDisabled(NoTls("NoClientHello")),
            built |-> <<NoTls("NoClientHello")>>]
      [] OTHER ->
           [hs |-> HsDisabled(NoTls("Disabled")), built |-> <<NoTls("Disabled")>>]

\* Mutant of handshake: the error of accept is not returned, and the inner
\* service is built all the same.
handshake_error_ignored(accepted, client_id, alpn, io, inner_result) ==
    [built |-> <<TlsEstablished(IF accepted THEN client_id ELSE None,
                                IF accepted THEN alpn ELSE None)>>,
     io |-> Some([side |-> "Right", io |-> io]),
     result |-> inner_result]

\* Handshake::handshake and the rest of the Enabled future of
\* Handshake::call: accepted is whether TlsAcceptor::accept succeeded.
handshake(accepted, client_id, alpn, io, inner_result) ==
    IF ~accepted
    THEN [built |-> <<>>, io |-> None, result |-> "Err"]
    ELSE [built |-> <<TlsEstablished(client_id, alpn)>>,
          io |-> Some([side |-> "Right", io |-> io]),
          result |-> inner_result]

\* The Disabled arm of Handshake::call.
call_disabled(io, inner_result) ==
    [io |-> Some([side |-> "Left", io |-> io]), result |-> inner_result]

-----------------------------------------------------------------------------
(* Server TLS: the state machine *)

TlsInitial ==
    /\ avail = 0
    /\ peer_closed = FALSE
    /\ consumed = 0
    /\ dpc = IF det_impl = "DetectSni" THEN "read" ELSE "peek"
    /\ buf = <<>>
    /\ det = None
    /\ det_path = ""
    /\ hs = HsUninit
    /\ hpc = "idle"
    /\ inner_built = <<>>
    /\ inner_io = None
    /\ accept_out = None
    /\ conn_result = "None"

TlsInit ==
    /\ det_impl \in {"detect", "DetectSni"}
    /\ identity \in {None, Some(LocalName)}
    /\ wire \in Wires
    /\ TlsInitial

\* The TLS part when it is not the part under study.
TlsIdle ==
    /\ det_impl = "detect"
    /\ identity = None
    /\ wire = <<>>
    /\ TlsInitial

\* More bytes of the peer reach the socket.
TlsDeliver ==
    /\ avail < Len(wire)
    /\ \E n \in 1..(Len(wire) - avail) : avail' = avail + n
    /\ UNCHANGED <<det_impl, identity, wire, peer_closed, consumed, dpc, buf, det,
                   det_path, hs, hpc, inner_built, inner_io, conn_result>>
    /\ UNCHANGED accept_out
    /\ UNCHANGED notTls

\* The peer closes its side after its last byte.
TlsPeerClose ==
    /\ avail = Len(wire)
    /\ ~peer_closed
    /\ peer_closed' = TRUE
    /\ UNCHANGED <<det_impl, identity, wire, avail, consumed, dpc, buf, det, det_path,
                   hs, hpc, inner_built, inner_io, conn_result>>
    /\ UNCHANGED accept_out
    /\ UNCHANGED notTls

\* detect(): io.peek returns, and the peeked array is parsed.
TlsPeek ==
    /\ dpc = "peek"
    /\ avail > 0 \/ peer_closed
    /\ LET sz == IF avail < PeekCap THEN avail ELSE PeekCap
           r == detect_peek(SubSeq(wire, 1, sz))
       IN /\ dpc' = IF r.done THEN "done" ELSE "read"
          /\ det' = r.out
          /\ det_path' = r.path
    /\ UNCHANGED <<det_impl, identity, wire, avail, peer_closed, consumed, buf, hs, hpc,
                   inner_built, inner_io, conn_result>>
    /\ UNCHANGED accept_out
    /\ UNCHANGED notTls

\* detect(): io.read_buf returns, and the buffer is parsed.
TlsRead ==
    /\ dpc = "read"
    /\ avail > consumed \/ peer_closed
    /\ LET room == capacity(buf) - Len(buf)
           n == IF avail - consumed < room THEN avail - consumed ELSE room
           b == buf \o SubSeq(wire, consumed + 1, consumed + n)
           r == IF det_impl = "DetectSni"
                THEN NewDetectService_detect(b, n, consumed + n)
                ELSE detect_read(b, n, consumed + n)
       IN /\ buf' = b
          /\ consumed' = consumed + n
          /\ dpc' = IF r.done THEN "done" ELSE "read"
          /\ det' = r.out
          /\ det_path' = r.path
    /\ UNCHANGED <<det_impl, identity, wire, avail, peer_closed, hs, hpc, inner_built,
                   inner_io, conn_result>>
    /\ UNCHANGED accept_out
    /\ UNCHANGED notTls

\* The detection timeout elapses while the detector still waits for bytes.
TlsTimeout ==
    /\ dpc \in {"peek", "read"}
    /\ LET r == NewDetectService_timeout(buf, consumed) IN
          /\ dpc' = r.dpc
          /\ det' = r.out
          /\ det_path' = r.path
          /\ conn_result' = r.result
    /\ UNCHANGED <<det_impl, identity, wire, avail, peer_closed, consumed, buf,
                   hs, hpc, inner_built, inner_io, accept_out>>
    /\ UNCHANGED notTls

\* new_service((sni, target)) on the NewHandshake, with the detected SNI
TlsNewService ==
    /\ dpc = "done"
    /\ hs.tag = "Uninit"
    /\ LET r == NewHandshake_new_service(identity, Unwrap(det).sni) IN
          /\ hs' = r.hs
          /\ inner_built' = inner_built \o r.built
    /\ UNCHANGED <<det_impl, identity, wire, avail, peer_closed, consumed, dpc, buf, det,
                   det_path, hpc, inner_io, conn_result>>
    /\ UNCHANGED accept_out
    /\ UNCHANGED notTls

\* Handshake::call(io), the Disabled arm: the inner service is called.
TlsCallDisabled ==
    /\ hs.tag = "Disabled"
    /\ hpc = "idle"
    /\ \E inner_result \in {"Ok", "Err"} :
          LET r == call_disabled(Unwrap(det).io, inner_result) IN
          /\ inner_io' = r.io
          /\ conn_result' = r.result
    /\ hpc' = "done"
    /\ UNCHANGED <<det_impl, identity, wire, avail, peer_closed, consumed, dpc, buf, det,
                   det_path, hs, inner_built>>
    /\ UNCHANGED accept_out
    /\ UNCHANGED notTls

\* Handshake::call(io), the Enabled arm: the future starts the handshake.
TlsCallEnabled ==
    /\ hs.tag = "Enabled"
    /\ hpc = "idle"
    /\ hpc' = "handshaking"
    /\ UNCHANGED <<det_impl, identity, wire, avail, peer_closed, consumed, dpc, buf, det,
                   det_path, hs, inner_built, inner_io, conn_result>>
    /\ UNCHANGED accept_out
    /\ UNCHANGED notTls

\* The handshake ends; on success the inner service is built and called.
TlsHandshakeDone ==
    /\ hpc = "handshaking"
    /\ \E accepted \in BOOLEAN, client_id \in ClientIds, alpn \in Alpns,
          inner_result \in {"Ok", "Err"} :
          LET r == handshake(accepted, client_id, alpn, Unwrap(det).io,
                             inner_result) IN
          /\ accept_out' = Some([accepted |-> accepted,
                                  client_id |-> IF accepted THEN client_id ELSE None,
                                  alpn |-> IF accepted THEN alpn ELSE None])
          /\ inner_built' = inner_built \o r.built
          /\ inner_io' = r.io
          /\ conn_result' = r.result
    /\ hpc' = "done"
    /\ UNCHANGED <<det_impl, identity, wire, avail, peer_closed, consumed, dpc, buf, det,
                   det_path, hs>>
    /\ UNCHANGED notTls

TlsNext ==
    \/ TlsDeliver
    \/ TlsPeerClose
    \/ TlsPeek
    \/ TlsRead
    \/ TlsTimeout
    \/ TlsNewService
    \/ TlsCallDisabled
    \/ TlsCallEnabled
    \/ TlsHandshakeDone

-----------------------------------------------------------------------------
(* Inbound server: values *)

\* Original destination ports of accepted connections.
AcceptPorts == {4143, 8080}

\* Ports named by an opaque-transport header.
HeaderPorts == {9090}

\* A layer of a stack: its kind, its argument, and the stack it falls back
\* or switches to.
L(kind, arg, alt) == [kind |-> kind, arg |-> arg, alt |-> alt]

\* What a detector found: an HTTP version, or a transport header naming a
\* port.
DetectedHttp(v) == [proto |-> v, port |-> 0]
DetectedHeader(p) == [proto |-> "Header", port |-> p]

\* The targets that pass down the stack: listen::Addrs, tls::accept::Meta,
\* TcpAccept, TcpEndpoint; detected is the Option a detector put before it.
InTarget(kind, port, tls, peer_id, detected) ==
    [kind |-> kind, port |-> port, tls |-> tls, peer_id |-> peer_id,
     detected |-> detected]
ListenAddrs(port) == InTarget("Addrs", port, None, None, None)

\* What TLS detection and termination yields for a connection.
TlsOutcomes ==
    {NoTls("Disabled"), NoTls("NoClientHello"), TlsPassthru(OtherName)}
    \cup {TlsEstablished(c, a) : c \in ClientIds, a \in Alpns}

\* How a connection ended.
InResult(handler, inner, version, error) ==
    [handler |-> handler, inner |-> inner, version |-> version, error |-> error]
InPending == InResult("", "", "", "")

\* impl Into<Error> for NonOpaqueRefused: the kind of the io::Error.
NonOpaqueRefused == "ConnectionRefused"

-----------------------------------------------------------------------------
(* Inbound server: the stacks of Inbound::server, outermost layer first *)

\* The alternate of the port-skip switch.
skipped ==
    <<L("map_target", "TcpAccept", ""),
      L("map_target", "TcpEndpoint", ""),
      L("tcp_forward", "", "")>>

\* The alternate of HTTP detection on the regular path.
forward ==
    <<L("map_target", "TcpEndpoint", ""),
      L("tcp_forward", "", "")>>

\* The alternate of HTTP detection on the direct path.
refuse == <<L("fail", "NonOpaqueRefused", "")>>

\* Mutant of direct_http: without an HTTP preamble the connection is
\* forwarded, as on the regular path.
direct_http_forwards ==
    <<L("detect", "http", ""),
      L("unwrap_or", "", "forward"),
      L("http_server", "http_gateway", "")>>

\* The alternate of transport-header detection: the gateway's HTTP server
\* behind HTTP detection.
direct_http ==
    <<L("detect", "http", ""),
      L("unwrap_or", "", "refuse"),
      L("http_server", "http_gateway", "")>>

\* Mutant of direct: the stack of the regular path.
direct_is_regular ==
    <<L("detect", "http", ""),
      L("unwrap_or", "", "forward"),
      L("cache", "", ""),
      L("http_server", "http_router", "")>>

\* Mutant of direct: the connection with a transport header is forwarded
\* to the port it was accepted on.
direct_forwards_accept_port ==
    <<L("detect", "header", ""),
      L("unwrap_or", "", "direct_http"),
      L("map_target", "TcpEndpoint", ""),
      L("tcp_forward", "", "")>>

\* The alternate of the loop-prevent switch.
direct ==
    <<L("detect", "header", ""),
      L("unwrap_or", "", "direct_http"),
      L("map_target", "HeaderEndpoint", ""),
      L("tcp_forward", "", "")>>

\* Mutant of server: the identity filter inside the loop-prevent switch,
\* behind HTTP detection.
server_filter_after_detect ==
    <<L("switch", "SkipByPort", "skipped"),
      L("detect", "tls", ""),
      L("map_target", "TcpAccept", ""),
      L("switch", "PreventLoop", "direct"),
      L("detect", "http", ""),
      L("filter", "RequireIdentityForPorts", ""),
      L("unwrap_or", "", "forward"),
      L("cache", "", ""),
      L("http_server", "http_router", "")>>

\* Mutant of server: the loop-prevent switch outside TLS detection.
server_loop_switch_first ==
    <<L("switch", "SkipByPort", "skipped"),
      L("switch", "PreventLoop", "direct"),
      L("detect", "tls", ""),
      L("map_target", "TcpAccept", ""),
      L("filter", "RequireIdentityForPorts", ""),
      L("detect", "http", ""),
      L("unwrap_or", "", "forward"),
      L("cache", "", ""),
      L("http_server", "http_router", "")>>

\* The stack Inbound::server returns.
server ==
    <<L("switch", "SkipByPort", "skipped"),
      L("detect", "tls", ""),
      L("map_target", "TcpAccept", ""),
      L("filter", "RequireIdentityForPorts", ""),
      L("switch", "PreventLoop", "direct"),
      L("detect", "http", ""),
      L("unwrap_or", "", "forward"),
      L("cache", "", ""),
      L("http_server", "http_router", "")>>

\* The stack a layer names as its alternate.
Stack(name) ==
    CASE name = "skipped" -> skipped
      [] name = "forward" -> forward
      [] name = "refuse" -> refuse
      [] name = "direct_http" -> direct_http
      [] name = "direct" -> direct
      [] OTHER -> server

-----------------------------------------------------------------------------
(* Inbound server: operations *)

\* Mutant of SkipByPort_use_primary: the test is inverted.
SkipByPort_use_primary_inverted(ports, t) == t.port \in ports

\* SkipByPort::use_primary
SkipByPort_use_primary(ports, t) == ~(t.port \in ports)

\* PreventLoop as a switch: the primary stack unless the connection targets
\* the proxy's own inbound port.
PreventLoop_use_primary(port, t) == t.port # port

\* RequireIdentityForPorts as a filter of TcpAccept: a connection to one of
\* the ports must carry a peer identity.
RequireIdentityForPorts_filter(ports, t) ==
    ~(t.port \in ports /\ t.peer_id = None)

\* TcpAccept::from, of listen::Addrs (no detection took place) and of the
\* meta of TLS detection.
TcpAccept_from(t) ==
    IF t.kind = "Addrs"
    THEN InTarget("TcpAccept", t.port, Some(NoTls("PortSkipped")), None, None)
    ELSE InTarget("TcpAccept", t.port, t.tls,
                  IF Unwrap(t.tls).tag = "Established"
                  THEN Unwrap(t.tls).client_id ELSE None,
                  None)

\* TcpEndpoint::from(TcpAccept): the port of the original destination.
TcpEndpoint_from(t) == InTarget("TcpEndpoint", t.port, t.tls, t.peer_id, None)

\* |(h, _)| TcpEndpoint::from(h): the port the transport header names.
TcpEndpoint_from_header(t) ==
    InTarget("TcpEndpoint", Unwrap(t.detected).port, t.tls, t.peer_id, None)

\* Mutant of tcp_connect_loopback: the unspecified address is dialed.
tcp_connect_unspecified(t) == [ip |-> "0.0.0.0", port |-> t.port]

\* tcp_connect_loopback: the address ConnectTcp is given.
tcp_connect_loopback(t) == [ip |-> "127.0.0.1", port |-> t.port]

-----------------------------------------------------------------------------
(* Inbound server: the state machine of one accepted connection *)

InInitial ==
    /\ in_path = "server"
    /\ in_trace = <<>>
    /\ in_conn = <<>>
    /\ in_result = InPending

InInit ==
    /\ disable_ports \in SUBSET AcceptPorts
    /\ require_ports \in SUBSET AcceptPorts
    /\ inbound_port \in AcceptPorts
    /\ in_addrs \in {ListenAddrs(p) : p \in AcceptPorts}
    /\ in_stack = server
    /\ in_target = in_addrs
    /\ InInitial

\* The inbound server when it is not the part under study.
InIdle ==
    /\ disable_ports = {}
    /\ require_ports = {}
    /\ inbound_port = 0
    /\ in_addrs = ListenAddrs(0)
    /\ in_stack = <<>>
    /\ in_target = in_addrs
    /\ InInitial

InConfig == <<disable_ports, require_ports, inbound_port, in_addrs>>

\* An entry of the trace: the layer that acted and what it decided.
Ran(layer, out) ==
    [kind |-> layer.kind, arg |-> layer.arg, alt |-> layer.alt, out |-> out]

\* The layer that acts next.
InHead == Head(in_stack)
InAt(kind) == in_stack # <<>> /\ InHead.kind = kind

\* The connection ends with an error before the rest of the stack is built.
InFail(error) ==
    /\ in_stack' = <<>>
    /\ in_result' = InResult("", "", "", error)

\* A switch builds its primary (inner) stack or its alternate.
InSwitch ==
    /\ InAt("switch")
    /\ LET primary == IF InHead.arg = "SkipByPort"
                      THEN SkipByPort_use_primary(disable_ports, in_target)
                      ELSE PreventLoop_use_primary(inbound_port, in_target)
       IN /\ in_stack' = IF primary THEN Tail(in_stack) ELSE Stack(InHead.alt)
          /\ in_path' = IF primary THEN in_path ELSE InHead.alt
          /\ in_trace' = Append(in_trace,
                                Ran(InHead, IF primary THEN "primary" ELSE "alt"))
    /\ UNCHANGED <<InConfig, in_target, in_conn, in_result>>
    /\ UNCHANGED notIn

\* A detector (TLS, HTTP, transport header) runs under the detection
\* timeout and puts what it found before the target.
InDetect ==
    /\ InAt("detect")
    /\ \/ /\ InFail("DetectTimeout")
          /\ in_trace' = Append(in_trace, Ran(InHead, "timeout"))
          /\ UNCHANGED in_target
       \/ /\ InHead.arg = "tls"
          /\ \/ /\ InFail("Io")
                /\ in_trace' = Append(in_trace, Ran(InHead, "error"))
                /\ UNCHANGED in_target
             \/ \E tls \in TlsOutcomes :
                   /\ in_target' = InTarget("Meta", in_target.port, Some(tls),
                                            None, None)
                   /\ in_trace' = Append(in_trace, Ran(InHead, tls.tag))
                   /\ in_stack' = Tail(in_stack)
                   /\ UNCHANGED in_result
       \/ /\ InHead.arg # "tls"
          /\ \E d \in IF InHead.arg = "http"
                       THEN {None, Some(DetectedHttp("Http1")),
                             Some(DetectedHttp("H2"))}
                       ELSE {None} \cup {Some(DetectedHeader(p)) : p \in HeaderPorts} :
                /\ in_target' = [in_target EXCEPT !.detected = d]
                /\ in_trace' = Append(in_trace,
                                      Ran(InHead, IF IsSome(d) THEN Unwrap(d).proto
                                                  ELSE "none"))
          /\ in_stack' = Tail(in_stack)
          /\ UNCHANGED in_result
    /\ UNCHANGED <<InConfig, in_path, in_conn>>
    /\ UNCHANGED notIn

\* map_target
InMapTarget ==
    /\ InAt("map_target")
    /\ in_target' = CASE InHead.arg = "TcpAccept" -> TcpAccept_from(in_target)
                      [] InHead.arg = "TcpEndpoint" -> TcpEndpoint_from(in_target)
                      [] OTHER -> TcpEndpoint_from_header(in_target)
    /\ in_stack' = Tail(in_stack)
    /\ in_trace' = Append(in_trace, Ran(InHead, in_target'.kind))
    /\ UNCHANGED <<InConfig, in_path, in_conn, in_result>>
    /\ UNCHANGED notIn

\* The request filter admits the target or fails with its error.
InFilter ==
    /\ InAt("filter")
    /\ IF RequireIdentityForPorts_filter(require_ports, in_target)
       THEN /\ in_stack' = Tail(in_stack)
            /\ in_trace' = Append(in_trace, Ran(InHead, "ok"))
            /\ UNCHANGED in_result
       ELSE /\ InFail("IdentityRequired")
            /\ in_trace' = Append(in_trace, Ran(InHead, "error"))
    /\ UNCHANGED <<InConfig, in_path, in_target, in_conn>>
    /\ UNCHANGED notIn

\* NewUnwrapOr: with Some(x) the inner stack is built for (x, target), with
\* None the alternate for the target.
InUnwrapOr ==
    /\ InAt("unwrap_or")
    /\ in_trace' = Append(in_trace, Ran(InHead, IF IsSome(in_target.detected)
                                                THEN "inner" ELSE "alt"))
    /\ IF IsSome(in_target.detected)
       THEN in_stack' = Tail(in_stack) /\ UNCHANGED in_path
       ELSE in_stack' = Stack(InHead.alt) /\ in_path' = InHead.alt
    /\ UNCHANGED <<InConfig, in_target, in_conn, in_result>>
    /\ UNCHANGED notIn

\* The cache passes the target to the stack it caches.
InCache ==
    /\ InAt("cache")
    /\ in_trace' = Append(in_trace, Ran(InHead, "inner"))
    /\ in_stack' = Tail(in_stack)
    /\ UNCHANGED <<InConfig, in_path, in_target, in_conn, in_result>>
    /\ UNCHANGED notIn

\* svc::Fail: every connection fails with the error of the layer.
InRefuse ==
    /\ InAt("fail")
    /\ in_trace' = Append(in_trace, Ran(InHead, "error"))
    /\ InFail(NonOpaqueRefused)
    /\ UNCHANGED <<InConfig, in_path, in_target, in_conn>>
    /\ UNCHANGED notIn

\* tcp_forward: connect to the endpoint, then copy in both directions.
InTcpForward ==
    /\ InAt("tcp_forward")
    /\ in_conn' = Append(in_conn, tcp_connect_loopback(in_target))
    /\ in_stack' = <<>>
    /\ \E connected \in BOOLEAN :
          /\ in_trace' = Append(in_trace, Ran(InHead, IF connected THEN "ok"
                                                      ELSE "error"))
          /\ in_result' = IF connected
                          THEN InResult("tcp_forward", in_path, "", "")
                          ELSE InResult("", "", "", "Connect")
    /\ UNCHANGED <<InConfig, in_path, in_target>>
    /\ UNCHANGED notIn

\* http_server: the connection is served as HTTP of the detected version
\* by the stack the layer names.
InHttpServer ==
    /\ InAt("http_server")
    /\ in_trace' = Append(in_trace, Ran(InHead, "ok"))
    /\ in_stack' = <<>>
    /\ in_result' = InResult("http_server", InHead.arg,
                             Unwrap(in_target.detected).proto, "")
    /\ UNCHANGED <<InConfig, in_path, in_target, in_conn>>
    /\ UNCHANGED notIn

InNext ==
    \/ InSwitch
    \/ InDetect
    \/ InMapTarget
    \/ InFilter
    \/ InUnwrapOr
    \/ InCache
    \/ InRefuse
    \/ InTcpForward
    \/ InHttpServer

-----------------------------------------------------------------------------
(* The per-target cache: values *)

\* The keys of the cache: the targets of the cached stacks.
Keys == {"a", "b"}

Callers == 1 .. MaxCallers

\* A service instance: the n-th construction for a key.  NoInst when a caller
\* holds none.
Inst(k, n) == <<k, n>>
NoInst == <<>>

\* An entry of the lookup map: the pending marker of a construction in
\* flight, or the constructed value with its last-used timestamp, kept as the
\* number of ticks since then.
CaEntry(state, n, idle) == [state |-> state, n |-> n, idle |-> idle]

\* A user of the cache: where it is in get_or_make, the key it asked for, the
\* construction it awaits, the service it holds, the response body it still
\* streams, and the build counter of its key when its get_or_make began and
\* when it returned.
CaCaller(pc, key, join, svc, rsp, b0, b1) ==
    [pc |-> pc, key |-> key, join |-> join, svc |-> svc, rsp |-> rsp,
     b0 |-> b0, b1 |-> b1]

CaInit ==
    /\ ca_map = [k \in Keys |-> None]
    /\ ca_builds = [k \in Keys |-> 0]
    /\ ca_made = {}
    /\ ca_tracked = {}
    /\ ca_evicted = {}
    /\ ca_call = [c \in Callers |-> CaCaller("idle", "", 0, NoInst, NoInst, 0, 0)]
    /\ ca_overlap = {}

\* The cache when it is not the part under study.
CaIdle == CaInit

-----------------------------------------------------------------------------
(* The per-target cache: operations *)

\* What get_or_make finds under the lock: a live entry, the marker of a
\* construction in flight, or nothing.
Cache_lookup_no_marker(e) ==
    IF IsSome(e) /\ e[1].state = "ready" THEN "hit" ELSE "miss"

Cache_lookup(e) ==
    IF ~IsSome(e) THEN "miss"
    ELSE IF e[1].state = "ready" THEN "hit" ELSE "pending"

\* The entry of key k holds instance i.
CaHolds(map, k, i) ==
    /\ IsSome(map[k])
    /\ map[k][1].state = "ready"
    /\ Inst(k, map[k][1].n) = i

\* Someone still has a strong reference to instance i: the lookup map, a
\* caller's handle, a response body in flight, or a waiter of the shared
\* construction future that has completed.
CaRefs(i, map, users, made) ==
    \/ \E k \in Keys : CaHolds(map, k, i)
    \/ \E c \in Callers :
          \/ users[c].svc = i
          \/ users[c].rsp = i
          \/ users[c].pc = "wait" /\ Inst(users[c].key, users[c].join) = i /\ i \in made

\* A reference to instance i was given up: the instance is dropped when it
\* was the last one.
Cache_release_aborts(i, tracked, map, users, made) ==
    tracked \ {i}

Cache_release(i, tracked, map, users, made) ==
    IF CaRefs(i, map, users, made) THEN tracked ELSE tracked \ {i}

\* The sweeper's test: the entry was last used cache_max_idle_age ago or
\* earlier.
Cache_expired_at_once(e) ==
    e.state = "ready"

Cache_expired(e) ==
    e.state = "ready" /\ e.idle >= MaxIdle

\* A successful readiness of the service of key k, instance n: the entry's
\* last-used timestamp is updated when the entry still is that instance.
Cache_touch(map, k, n) ==
    IF CaHolds(map, k, Inst(k, n))
    THEN [map EXCEPT ![k] = Some(CaEntry("ready", n, 0))]
    ELSE map

\* A tick of the clock: every constructed entry is one tick older.
Cache_age(map) ==
    [k \in Keys |->
        IF IsSome(map[k]) /\ map[k][1].state = "ready"
        THEN Some(CaEntry("ready", map[k][1].n, map[k][1].idle + 1))
        ELSE map[k]]

\* The instances whose construction was started.
CaStarted == UNION {{Inst(k, n) : n \in 1 .. ca_builds[k]} : k \in Keys}

\* The instances the sweeper evicted.
CaEvictedInsts == {e.inst : e \in ca_evicted}

\* The pairs of callers whose windows overlap that of caller c, which begins
\* a get_or_make for key k.
CaOverlaps(c, k) ==
    {{c, d} : d \in {x \in Callers \ {c} :
                        ca_call[x].pc \in {"make", "wait"} /\ ca_call[x].key = k}}

CaWithout(c) == {p \in ca_overlap : c \notin p}

-----------------------------------------------------------------------------
(* The per-target cache: actions *)

\* get_or_make(k) by caller c: under the lock, return the live entry, join
\* the construction in flight, or insert a pending marker and start the
\* construction after releasing the lock.  A caller asks for a service again
\* only after the body of its last response completed.
CaGetOrMake ==
    \E c \in Callers, k \in Keys :
        /\ ca_call[c].pc = "idle"
        /\ ca_call[c].rsp = NoInst
        /\ LET found == Cache_lookup(ca_map[k])
               me == ca_call[c]
           IN  \/ /\ found = "hit"
                  /\ ca_call' = [ca_call EXCEPT ![c] =
                        CaCaller("hold", k, 0, Inst(k, ca_map[k][1].n), me.rsp,
                                 ca_builds[k], ca_builds[k])]
                  /\ UNCHANGED <<ca_map, ca_builds>>
               \/ /\ found = "pending"
                  /\ ca_call' = [ca_call EXCEPT ![c] =
                        CaCaller("wait", k, ca_map[k][1].n, NoInst, me.rsp,
                                 ca_builds[k], 0)]
                  /\ UNCHANGED <<ca_map, ca_builds>>
               \/ /\ found = "miss"
                  /\ Cardinality(CaStarted) < MaxBuilds
                  /\ ca_builds' = [ca_builds EXCEPT ![k] = @ + 1]
                  /\ ca_map' = [ca_map EXCEPT ![k] =
                        Some(CaEntry("pending", ca_builds[k] + 1, 0))]
                  /\ ca_call' = [ca_call EXCEPT ![c] =
                        CaCaller("make", k, ca_builds[k] + 1, NoInst, me.rsp,
                                 ca_builds[k], 0)]
        /\ ca_overlap' = CaWithout(c) \cup CaOverlaps(c, k)
        /\ UNCHANGED <<ca_made, ca_tracked, ca_evicted>>
        /\ UNCHANGED notCa

\* The construction started by caller c completes: under the lock the marker
\* is replaced by the value, and the waiters are woken.
CaConstructed ==
    \E c \in Callers :
        /\ ca_call[c].pc = "make"
        /\ LET me == ca_call[c]
               i == Inst(me.key, me.join)
           IN  /\ ca_map' = [ca_map EXCEPT ![me.key] =
                     Some(CaEntry("ready", me.join, 0))]
               /\ ca_made' = ca_made \cup {i}
               /\ ca_tracked' = ca_tracked \cup {i}
               /\ ca_call' = [ca_call EXCEPT ![c] =
                     CaCaller("hold", me.key, 0, i, me.rsp, me.b0, ca_builds[me.key])]
        /\ UNCHANGED <<ca_builds, ca_evicted, ca_overlap>>
        /\ UNCHANGED notCa

\* A woken waiter takes the value of the construction it joined.
CaWake ==
    \E c \in Callers :
        /\ ca_call[c].pc = "wait"
        /\ Inst(ca_call[c].key, ca_call[c].join) \in ca_made
        /\ LET me == ca_call[c]
           IN  ca_call' = [ca_call EXCEPT ![c] =
                  CaCaller("hold", me.key, 0, Inst(me.key, me.join), me.rsp,
                           me.b0, ca_builds[me.key])]
        /\ UNCHANGED <<ca_map, ca_builds, ca_made, ca_tracked, ca_evicted, ca_overlap>>
        /\ UNCHANGED notCa

\* Caller c polls the service it holds and finds it ready.
CaReady ==
    \E c \in Callers :
        /\ ca_call[c].pc = "hold"
        /\ LET me == ca_call[c]
           IN  /\ CaHolds(ca_map, me.key, me.svc)
               /\ ca_map[me.key][1].idle > 0
               /\ ca_map' = Cache_touch(ca_map, me.key, me.svc[2])
        /\ UNCHANGED <<ca_builds, ca_made, ca_tracked, ca_evicted, ca_call, ca_overlap>>
        /\ UNCHANGED notCa

\* Caller c sends a request through the ready service it holds; the response
\* arrives and its body is streaming.
CaCall ==
    \E c \in Callers :
        /\ ca_call[c].pc = "hold"
        /\ ca_call[c].rsp = NoInst
        /\ LET me == ca_call[c]
           IN  /\ ca_map' = Cache_touch(ca_map, me.key, me.svc[2])
               /\ ca_call' = [ca_call EXCEPT ![c].rsp = me.svc]
        /\ UNCHANGED <<ca_builds, ca_made, ca_tracked, ca_evicted, ca_overlap>>
        /\ UNCHANGED notCa

\* The response body of caller c completes.
CaBodyEnd ==
    \E c \in Callers :
        /\ ca_call[c].rsp # NoInst
        /\ ca_call' = [ca_call EXCEPT ![c].rsp = NoInst]
        /\ ca_tracked' = Cache_release(ca_call[c].rsp, ca_tracked, ca_map, ca_call', ca_made)
        /\ UNCHANGED <<ca_map, ca_builds, ca_made, ca_evicted, ca_overlap>>
        /\ UNCHANGED notCa

\* Caller c drops the service it holds (the client goes away).
CaDropClient ==
    \E c \in Callers :
        /\ ca_call[c].pc = "hold"
        /\ ca_call' = [ca_call EXCEPT ![c] =
              CaCaller("idle", "", 0, NoInst, ca_call[c].rsp, 0, 0)]
        /\ ca_tracked' = Cache_release(ca_call[c].svc, ca_tracked, ca_map, ca_call', ca_made)
        /\ ca_overlap' = CaWithout(c)
        /\ UNCHANGED <<ca_map, ca_builds, ca_made, ca_evicted>>
        /\ UNCHANGED notCa

\* The sweeper removes an expired entry from the lookup map and drops the
\* map's reference to the instance.
CaEvict ==
    \E k \in Keys :
        /\ IsSome(ca_map[k])
        /\ Cache_expired(ca_map[k][1])
        /\ ca_map' = [ca_map EXCEPT ![k] = None]
        /\ ca_evicted' = ca_evicted \cup
              {[inst |-> Inst(k, ca_map[k][1].n), idle |-> ca_map[k][1].idle]}
        /\ ca_tracked' = Cache_release(Inst(k, ca_map[k][1].n), ca_tracked, ca_map',
                                       ca_call, ca_made)
        /\ UNCHANGED <<ca_builds, ca_made, ca_call, ca_overlap>>
        /\ UNCHANGED notCa

\* Time passes.  The sweeper and a woken waiter act before the clock moves on:
\* both take no time on the scale of cache_max_idle_age.
CaTick ==
    /\ \A k \in Keys : IsSome(ca_map[k]) => ~Cache_expired(ca_map[k][1])
    /\ \A c \in Callers :
          ~(ca_call[c].pc = "wait" /\ Inst(ca_call[c].key, ca_call[c].join) \in ca_made)
    /\ ca_map' = Cache_age(ca_map)
    /\ UNCHANGED <<ca_builds, ca_made, ca_tracked, ca_evicted, ca_call, ca_overlap>>
    /\ UNCHANGED notCa

CaNext ==
    \/ CaGetOrMake
    \/ CaConstructed
    \/ CaWake
    \/ CaReady
    \/ CaCall
    \/ CaBodyEnd
    \/ CaDropClient
    \/ CaEvict
    \/ CaTick

-----------------------------------------------------------------------------
(* The HTTP server: values *)

Reqs == 1 .. MaxReqs

\* What a client gets for a request: a response with a status (kind names the
\* error a synthesized response reports), or the failure of its connection.
Rsp(status, kind) == [tag |-> "Rsp", status |-> status, kind |-> kind]
Fail(kind) == [tag |-> "Fail", status |-> 0, kind |-> kind]

\* The errors HttpGateway::call returns.
GatewayErrors ==
    {HttpError("not_found", "no authority"),
     HttpError("identity_required", "no identity"),
     HttpError("not_found", "bad domain"),
     HttpError("gateway_loop", "")}

\* The error of the endpoint's connector in endpoint_propagates_http_errors.
ConnectError == HttpError("io", "ConnectionReset")

\* The error of FailFast, and those of the buffers and timeouts inside it.
FailFastError == HttpError("fail_fast", "")
DispatchErrors == {HttpError("load_shed", ""), HttpError("dispatch_timeout", "")}

\* The errors of the services inside the HTTP server.
InnerErrors == GatewayErrors \cup {ConnectError} \cup DispatchErrors

\* A request: where it is, whether FailFast passed it on or failed it, what
\* the inner service's readiness was then and for how long it had been
\* unready, the error raised for the request, and what the client received
\* for it.
SvReq(st, how, inner, waited, err, out) ==
    [st |-> st, how |-> how, inner |-> inner, waited |-> waited, err |-> err,
     out |-> out]

SvInit ==
    /\ sv_inner = "ready"
    /\ sv_unready = 0
    /\ sv_req = [r \in Reqs |-> SvReq("none", "", "", 0, None, <<>>)]
    /\ sv_conn = "open"

\* The HTTP server when it is not the part under study.
SvIdle == SvInit

-----------------------------------------------------------------------------
(* The HTTP server: operations *)

\* The layers http_server puts on the responses of the inner stack, outermost
\* first (the layer pushed last wraps the others).
http_server_without_errors ==
    <<"BoxRequest", "BoxResponse", "metrics", "TraceContext",
      "http_errors", "FailFast", "ConcurrencyLimit", "Downgrade">>

http_server_errors_inside ==
    <<"BoxRequest", "BoxResponse", "metrics", "TraceContext", "http_errors",
      "FailFast", "errors", "ConcurrencyLimit", "Downgrade">>

http_server_on_response ==
    <<"BoxRequest", "BoxResponse", "metrics", "TraceContext", "errors",
      "http_errors", "FailFast", "ConcurrencyLimit", "Downgrade">>

\* The status of the response synthesized for an error.
http_status(e) ==
    CASE e.kind \in {"not_found", "bad_domain", "no_authority"} -> 502
      [] e.kind = "identity_required" -> 403
      [] e.kind = "gateway_loop" -> 502
      [] e.kind \in {"fail_fast", "load_shed"} -> 503
      [] e.kind = "dispatch_timeout" -> 504
      [] OTHER -> 502

\* Where a layer sits in the list; the wrapped service is behind them all.
SvDepth(layers, at) ==
    IF at = "inner" THEN Len(layers) + 1 ELSE IndexOf(layers, at)

\* What the client gets when the layer `at` (or the inner service) fails a
\* request with e: the response errors::layer makes of it when that layer
\* wraps the failing one, the failure itself otherwise.
SvRaise(layers, at, e) ==
    IF /\ IndexOf(layers, "errors") > 0
       /\ IndexOf(layers, "errors") < SvDepth(layers, at)
    THEN Rsp(http_status(e), e.kind)
    ELSE Fail(e.kind)

\* The state of FailFast: open while the inner service is ready, waiting
\* while it has been unready for less than the timeout, failing after that.
FailFast_state_eager(inner, unready) ==
    IF inner = "ready" THEN "open" ELSE "failfast"

FailFast_state(inner, unready) ==
    IF inner = "ready" THEN "open"
    ELSE IF unready >= MaxDispatch THEN "failfast" ELSE "waiting"

\* FailFast is ready for a call when it can pass it on or fail it.
FailFast_poll_ready(state) == state # "waiting"

\* What FailFast does with a call.
FailFast_call(state) == IF state = "open" THEN "inner" ELSE "failfast"

\* The connection after the client got `out`: a failure breaks it, and after a
\* synthesized error response the server closes it.
SvConnAfter(conn, out) ==
    IF out.tag = "Fail" THEN "error"
    ELSE IF out.kind # "" /\ conn = "open" THEN "closing"
    ELSE conn

-----------------------------------------------------------------------------
(* The HTTP server: actions *)

\* The client sends a request; it waits for the server's stack to be ready.
SvArrive ==
    \E r \in Reqs :
        /\ sv_conn = "open"
        /\ sv_req[r].st = "none"
        /\ sv_req' = [sv_req EXCEPT ![r].st = "pending"]
        /\ UNCHANGED <<sv_inner, sv_unready, sv_conn>>
        /\ UNCHANGED notSv

\* FailFast is ready and is called with a pending request: it passes the
\* request to the inner service, or fails it.
SvDispatchOf(r) ==
        /\ sv_req[r].st = "pending"
        /\ sv_conn \in {"open", "closing"}
        /\ LET state == FailFast_state(sv_inner, sv_unready)
               out == SvRaise(http_server_on_response, "FailFast", FailFastError)
           IN  /\ FailFast_poll_ready(state)
               /\ \/ /\ FailFast_call(state) = "inner"
                     /\ sv_req' = [sv_req EXCEPT ![r] =
                           SvReq("inner", "inner", sv_inner, sv_unready, None, <<>>)]
                     /\ UNCHANGED sv_conn
                  \/ /\ FailFast_call(state) = "failfast"
                     /\ sv_req' = [sv_req EXCEPT ![r] =
                           SvReq("done", "failfast", sv_inner, sv_unready,
                                 Some(FailFastError), <<out>>)]
                     /\ sv_conn' = SvConnAfter(sv_conn, out)
        /\ UNCHANGED <<sv_inner, sv_unready>>
        /\ UNCHANGED notSv

SvDispatch == \E r \in Reqs : SvDispatchOf(r)

\* The inner service answers a request, or fails it.
SvInnerRespond ==
    \E r \in Reqs :
        /\ sv_req[r].st = "inner"
        /\ sv_conn \in {"open", "closing"}
        /\ \/ /\ sv_req' = [sv_req EXCEPT ![r].st = "done",
                                         ![r].out = Append(@, Rsp(200, ""))]
              /\ UNCHANGED sv_conn
           \/ \E e \in InnerErrors :
                 LET out == SvRaise(http_server_on_response, "inner", e)
                 IN  /\ sv_req' = [sv_req EXCEPT ![r].st = "done",
                                                ![r].err = Some(e),
                                                ![r].out = Append(@, out)]
                     /\ sv_conn' = SvConnAfter(sv_conn, out)
        /\ UNCHANGED <<sv_inner, sv_unready>>
        /\ UNCHANGED notSv

\* The inner service stops being ready.
SvInnerUnready ==
    /\ sv_inner = "ready"
    /\ sv_inner' = "unready"
    /\ sv_unready' = 0
    /\ UNCHANGED <<sv_req, sv_conn>>
    /\ UNCHANGED notSv

\* The inner service becomes ready again.
SvInnerReady ==
    /\ sv_inner = "unready"
    /\ sv_inner' = "ready"
    /\ sv_unready' = 0
    /\ UNCHANGED <<sv_req, sv_conn>>
    /\ UNCHANGED notSv

\* Time passes while the inner service is unready.
SvTick ==
    /\ sv_inner = "unready"
    /\ sv_unready < MaxDispatch
    /\ sv_unready' = sv_unready + 1
    /\ UNCHANGED <<sv_inner, sv_req, sv_conn>>
    /\ UNCHANGED notSv

\* The server closes the connection once every request on it is answered.
SvClose ==
    /\ sv_conn = "closing"
    /\ \A r \in Reqs : sv_req[r].st \in {"none", "done"}
    /\ sv_conn' = "closed"
    /\ UNCHANGED <<sv_inner, sv_unready, sv_req>>
    /\ UNCHANGED notSv

SvNext ==
    \/ SvArrive
    \/ SvDispatch
    \/ SvInnerRespond
    \/ SvInnerUnready
    \/ SvInnerReady
    \/ SvTick
    \/ SvClose

-----------------------------------------------------------------------------
(* Outbound request keying (linkerd/app/outbound/src/endpoint.rs) *)

\* An Addr: a name with a port, or a socket address.
AddrName(name, port) == [kind |-> "Name", name |-> name, ip |-> "", port |-> port]
AddrSocket(ip, port) == [kind |-> "Socket", name |-> "", ip |-> ip, port |-> port]

\* Results of the address parsers.
AddrOk(a) == [ok |-> TRUE, addr |-> a]
AddrErr == [ok |-> FALSE, addr |-> AddrSocket("", 0)]

\* The texts a header or an authority carries: a name address, a socket
\* address and one that is no address.
ObTexts == {"web.ns.svc:80", "10.0.0.9:8080", "not an address"}

\* Addr::from_str on those texts.
Addr_from_str(text) ==
    CASE text = "web.ns.svc:80" -> AddrOk(AddrName("web.ns.svc", 80))
      [] text = "10.0.0.9:8080" -> AddrOk(AddrSocket("10.0.0.9", 8080))
      [] OTHER -> AddrErr

\* The original destinations of the outbound listener's connections.
ObTargets == {AddrSocket("10.0.0.41", 5550), AddrSocket("10.0.0.42", 80)}

\* A request as recognize reads it: the l5d-dst-override header, the
\* authority of the URI and the Host header, each absent or a text.
ObRequest(override, authority, host) ==
    [override |-> override, authority |-> authority, host |-> host]

ObOptTexts == {None} \cup {Some(t) : t \in ObTexts}

ObRequests ==
    {ObRequest(o, a, h) : o \in ObOptTexts, a \in ObOptTexts, h \in ObOptTexts}

\* The address of one of the request's sources: an error when the source is
\* absent or is no address.
ObSourceAddr(v) == IF IsSome(v) THEN Addr_from_str(Unwrap(v)) ELSE AddrErr

http_request_l5d_override_dst_addr(req) == ObSourceAddr(req.override)
http_request_authority_addr(req) == ObSourceAddr(req.authority)
http_request_host_addr(req) == ObSourceAddr(req.host)

Logical(dst, orig_target) == [dst |-> dst, orig_target |-> orig_target]

\* LogicalPerRequest::recognize.
recognize_authority_first(addrs, req) ==
    LET a == http_request_authority_addr(req)
        o == http_request_l5d_override_dst_addr(req)
        h == http_request_host_addr(req)
        dst == IF a.ok THEN a.addr
               ELSE IF o.ok THEN o.addr
               ELSE IF h.ok THEN h.addr
               ELSE addrs
    IN  Logical(dst, addrs)

recognize(addrs, req) ==
    LET o == http_request_l5d_override_dst_addr(req)
        a == http_request_authority_addr(req)
        h == http_request_host_addr(req)
        dst == IF o.ok THEN o.addr
               ELSE IF a.ok THEN a.addr
               ELSE IF h.ok THEN h.addr
               ELSE addrs
    IN  Logical(dst, addrs)

ObInit ==
    /\ ob_addrs \in ObTargets
    /\ ob_req = None
    /\ ob_logical = None

\* Request keying when it is not the part under study.
ObIdle ==
    /\ ob_addrs = AddrSocket("", 0)
    /\ ob_req = None
    /\ ob_logical = None

\* The router keys a request of the connection.
ObRecognize ==
    \E req \in ObRequests :
        /\ ob_req' = Some(req)
        /\ ob_logical' = Some(recognize(ob_addrs, req))
        /\ UNCHANGED ob_addrs
        /\ UNCHANGED notOb

ObNext == ObRecognize

-----------------------------------------------------------------------------
(* The inbound HTTP router (Inbound::http_router) *)

\* The layers of http_router between the HTTP server and the per-target
\* stack, outermost first (the layer pushed last wraps the others).
http_router_strip_first ==
    <<"strip_header", "NewRouter", "BoxNewService", "BoxResponse", "Retain",
      "cache", "metrics", "spawn_buffer", "FailFast", "when_unready">>

http_router ==
    <<"NewRouter", "strip_header", "BoxNewService", "BoxResponse", "Retain",
      "cache", "metrics", "spawn_buffer", "FailFast", "when_unready">>

\* RequestTarget::recognize: the Target of a request, from its headers and
\* the connection's target address.
RequestTarget_recognize(addr, req) == recognize(addr, req).dst

\* strip_header::request: the request without the l5d-dst-override header.
strip_header(req) == [req EXCEPT !.override = None]

RtInit ==
    /\ rt_addr \in ObTargets
    /\ rt_req \in {r \in ObRequests : r.host = None}
    /\ rt_stack = http_router
    /\ rt_cur = rt_req
    /\ rt_key = None
    /\ rt_trace = <<>>
    /\ rt_delivered = None

\* The router when it is not the part under study.
RtIdle ==
    /\ rt_addr = AddrSocket("", 0)
    /\ rt_req = ObRequest(None, None, None)
    /\ rt_stack = <<>>
    /\ rt_cur = rt_req
    /\ rt_key = None
    /\ rt_trace = <<>>
    /\ rt_delivered = None

RtAt(layers) == rt_stack # <<>> /\ Head(rt_stack) \in layers

RtStep ==
    /\ rt_trace' = Append(rt_trace, Head(rt_stack))
    /\ rt_stack' = Tail(rt_stack)
    /\ UNCHANGED <<rt_addr, rt_req>>
    /\ UNCHANGED notRt

\* NewRouter: the key of the request is computed, and the request goes to
\* the service of that key.
RtRoute ==
    /\ RtAt({"NewRouter"})
    /\ rt_key' = Some(RequestTarget_recognize(rt_addr, rt_cur))
    /\ UNCHANGED <<rt_cur, rt_delivered>>
    /\ RtStep

\* strip_header::request removes the override header.
RtStrip ==
    /\ RtAt({"strip_header"})
    /\ rt_cur' = strip_header(rt_cur)
    /\ UNCHANGED <<rt_key, rt_delivered>>
    /\ RtStep

\* The other layers leave the request's headers alone.
RtPass ==
    /\ RtAt({"BoxNewService", "BoxResponse", "Retain", "cache", "metrics",
             "spawn_buffer", "FailFast"})
    /\ UNCHANGED <<rt_cur, rt_key, rt_delivered>>
    /\ RtStep

\* The last layer hands the request to the per-target stack.
RtDeliver ==
    /\ RtAt({"when_unready"})
    /\ rt_delivered' = Some(rt_cur)
    /\ UNCHANGED <<rt_cur, rt_key>>
    /\ RtStep

RtNext ==
    \/ RtRoute
    \/ RtStrip
    \/ RtPass
    \/ RtDeliver

-----------------------------------------------------------------------------
(* The discovery allow-list (PermitConfiguredDsts) *)

\* A DNS name or suffix is its labels, leftmost first; the root suffix has
\* none.  An IP address is its family and its leading bits; a network is a
\* family and a prefix of bits.
Ip(v, bits) == [v |-> v, bits |-> bits]

\* The two kinds of Addr, with a name as labels and an IP as bits.
NameAddr(name, port) == [kind |-> "Name", name |-> name, ip |-> Ip(0, <<>>), port |-> port]
SocketAddr(ip, port) == [kind |-> "Socket", name |-> <<>>, ip |-> ip, port |-> port]

PmSuffixes == {<<>>, <<"svc">>, <<"ns", "svc">>}
PmNetworks == {Ip(4, <<>>), Ip(4, <<1>>), Ip(4, <<1, 0>>), Ip(6, <<1>>)}
PmAddrs ==
    {NameAddr(n, 80) : n \in {<<"web", "ns", "svc">>, <<"web", "xsvc">>, <<"svc">>}}
    \cup {SocketAddr(Ip(4, b), 80) : b \in {<<1, 0>>, <<1, 1>>, <<0, 1>>}}
    \cup {SocketAddr(Ip(6, b), 80) : b \in {<<1, 0>>, <<0, 0>>}}

\* Suffix::contains: the root contains every name, another suffix the names
\* that end with its labels.
Suffix_contains(sfx, name) ==
    /\ Len(sfx) <= Len(name)
    /\ \A j \in 1..Len(sfx) : sfx[j] = name[Len(name) - Len(sfx) + j]

\* Ipv4Net::contains, Ipv6Net::contains: the address begins with the
\* network's prefix.
IpNet_contains(net, ip) ==
    /\ Len(net.bits) <= Len(ip.bits)
    /\ \A j \in 1..Len(net.bits) : net.bits[j] = ip.bits[j]

\* The result of a filter: the permitted target, or the rejection.
PmOk(t) == [ok |-> TRUE, target |-> t, rejected |-> <<>>]
DiscoveryRejected(a) == [ok |-> FALSE, target |-> <<>>, rejected |-> <<a>>]

\* RequestFilter<SocketAddr>::filter.
filter_SocketAddr_any_family(networks, sa) ==
    IF \E net \in networks : IpNet_contains(net, sa.ip)
    THEN PmOk(sa) ELSE DiscoveryRejected(sa)

filter_SocketAddr(networks, sa) ==
    LET permitted == \E net \in networks :
            CASE net.v = 4 /\ sa.ip.v = 4 -> IpNet_contains(net, sa.ip)
              [] net.v = 6 /\ sa.ip.v = 6 -> IpNet_contains(net, sa.ip)
              [] OTHER -> FALSE
    IN  IF permitted THEN PmOk(sa) ELSE DiscoveryRejected(sa)

\* RequestFilter<Addr>::filter.
filter_Addr(suffixes, networks, addr) ==
    IF addr.kind = "Socket"
    THEN filter_SocketAddr(networks, addr)
    ELSE LET permitted == \E suffix \in suffixes : Suffix_contains(suffix, addr.name)
         IN  IF permitted THEN PmOk(addr) ELSE DiscoveryRejected(addr)

PmInit ==
    /\ pm_suffixes \in SUBSET PmSuffixes
    /\ pm_networks \in SUBSET PmNetworks
    /\ pm_addr = None
    /\ pm_out = None
    /\ pm_inner = None

\* The allow-list when it is not the part under study.
PmIdle ==
    /\ pm_suffixes = {}
    /\ pm_networks = {}
    /\ pm_addr = None
    /\ pm_out = None
    /\ pm_inner = None

\* A request for a target passes the filter: the inner service is called
\* with a permitted target, and a rejection is the response otherwise.
PmCall ==
    \E addr \in PmAddrs :
        LET out == filter_Addr(pm_suffixes, pm_networks, addr)
        IN  /\ pm_addr' = Some(addr)
            /\ pm_out' = Some(out)
            /\ pm_inner' = IF out.ok THEN Some(out.target) ELSE None
            /\ UNCHANGED <<pm_suffixes, pm_networks>>
            /\ UNCHANGED notPm

PmNext == PmCall

-----------------------------------------------------------------------------
(* The client identity of a TLS peer (Handshake::client_identity) *)

\* The DNS names of a certificate, as webpki gives them.
DNSName(n) == [kind |-> "DNSName", name |-> n]
Wildcard(n) == [kind |-> "Wildcard", name |-> n]
CiNames == {DNSName("client.test"), DNSName("other.test"), Wildcard("*.test")}
CiNameLists ==
    {<<>>} \cup {<<n>> : n \in CiNames} \cup {<<n, m>> : n \in CiNames, m \in CiNames}

\* A certificate: whether it parses as an end-entity certificate, and its
\* DNS names, or <<>> when reading them fails.
Certificate(parses, dns_names) == [parses |-> parses, dns_names |-> dns_names]
CiUnparsable == Certificate(FALSE, None)
CiCerts ==
    {CiUnparsable, Certificate(TRUE, None)}
    \cup {Certificate(TRUE, Some(l)) : l \in CiNameLists}
CiChains ==
    {<<>>} \cup {<<c>> : c \in CiCerts}
    \cup {<<c, d>> : c \in CiCerts,
                     d \in {CiUnparsable, Certificate(TRUE, Some(<<DNSName("client.test")>>)),
                            Certificate(TRUE, Some(<<DNSName("other.test")>>))}}

\* Handshake::client_identity.
client_identity_skips_wildcards(peer_certificates) ==
    IF peer_certificates = None THEN None
    ELSE LET certs == Unwrap(peer_certificates)
         IN  IF certs = <<>> THEN None
             ELSE LET c == Head(certs)
                  IN  IF ~c.parses \/ c.dns_names = None THEN None
                      ELSE LET names == SelectSeq(Unwrap(c.dns_names),
                                                  LAMBDA n : n.kind = "DNSName")
                           IN  IF names = <<>> THEN None ELSE Some(Head(names).name)

client_identity(peer_certificates) ==
    IF peer_certificates = None THEN None
    ELSE LET certs == Unwrap(peer_certificates)
         IN  IF certs = <<>> THEN None
             ELSE LET c == Head(certs)
                  IN  IF ~c.parses THEN None
                      ELSE IF c.dns_names = None THEN None
                      ELSE LET dns_names == Unwrap(c.dns_names)
                           IN  IF dns_names = <<>> THEN None
                               ELSE IF Head(dns_names).kind = "DNSName"
                                    THEN Some(Head(dns_names).name)
                                    ELSE None

CiInit ==
    /\ ci_certs \in {None} \cup {Some(ch) : ch \in CiChains}
    /\ ci_tls = None

\* The part when it is not under study.
CiIdle ==
    /\ ci_certs = None
    /\ ci_tls = None

\* The handshake was accepted: the connection is established with the
\* identity read from the session.
CiAccepted ==
    /\ ci_tls = None
    /\ \E alpn \in Alpns :
          ci_tls' = Some(TlsEstablished(client_identity(ci_certs), alpn))
    /\ UNCHANGED ci_certs
    /\ UNCHANGED notCi

CiNext == CiAccepted

-----------------------------------------------------------------------------
(* Endpoint discovery: the update stream and the endpoint table *)

EpAddrs == {"10.0.0.41:5550", "10.0.0.42:5550"}

\* resolve::Update
Add(addrs) == [tag |-> "Add", addrs |-> addrs]
Remove(addrs) == [tag |-> "Remove", addrs |-> addrs]
Reset(addrs) == [tag |-> "Reset", addrs |-> addrs]
DoesNotExist == [tag |-> "DoesNotExist", addrs |-> {}]

Updates ==
    {Add(a) : a \in SUBSET EpAddrs \ {{}}}
    \cup {Remove(a) : a \in SUBSET EpAddrs \ {{}}}
    \cup {Reset(a) : a \in SUBSET EpAddrs}
    \cup {DoesNotExist}

\* The outcome of a call on the balancer of the target.
Picked(addr) == [ok |-> TRUE, addr |-> addr, error |-> ""]
NotFound == [ok |-> FALSE, addr |-> "", error |-> "NotFound"]

\* The consumer's table and state after one update.
EpApply_reset_merges(table, state, up) ==
    IF state = "not_found" THEN [table |-> {}, state |-> "not_found"]
    ELSE CASE up.tag \in {"Add", "Reset"} -> [table |-> table \cup up.addrs, state |-> state]
           [] up.tag = "Remove" -> [table |-> table \ up.addrs, state |-> state]
           [] up.tag = "DoesNotExist" -> [table |-> {}, state |-> "not_found"]

EpApply(table, state, up) ==
    IF state = "not_found" THEN [table |-> {}, state |-> "not_found"]
    ELSE CASE up.tag = "Add" -> [table |-> table \cup up.addrs, state |-> state]
           [] up.tag = "Remove" -> [table |-> table \ up.addrs, state |-> state]
           [] up.tag = "Reset" -> [table |-> up.addrs, state |-> state]
           [] up.tag = "DoesNotExist" -> [table |-> {}, state |-> "not_found"]

EpInit ==
    /\ ep_queue = <<>>
    /\ ep_sent = 0
    /\ ep_applied = <<>>
    /\ ep_table = {}
    /\ ep_state = "active"
    /\ ep_pick = None

EpIdle == EpInit

\* DstSender::update (add, remove, reset, does_not_exist): the update is
\* put on the unbounded channel.
EpSend ==
    /\ ep_sent < MaxUpdates
    /\ \E up \in Updates : ep_queue' = Append(ep_queue, up)
    /\ ep_sent' = ep_sent + 1
    /\ UNCHANGED <<ep_applied, ep_table, ep_state, ep_pick>>
    /\ UNCHANGED notEp

\* The consumer takes the next update of the stream.
EpConsume ==
    /\ ep_queue # <<>>
    /\ LET r == EpApply(ep_table, ep_state, Head(ep_queue))
       IN  /\ ep_table' = r.table
           /\ ep_state' = r.state
    /\ ep_applied' = Append(ep_applied, Head(ep_queue))
    /\ ep_queue' = Tail(ep_queue)
    /\ UNCHANGED <<ep_sent, ep_pick>>
    /\ UNCHANGED notEp

\* A new call: it fails in the not-found state, and otherwise goes to an
\* endpoint of the table once there is one.
EpCall ==
    /\ ep_pick = None
    /\ \/ /\ ep_state = "not_found"
          /\ ep_pick' = Some(NotFound)
       \/ /\ ep_state = "active"
          /\ \E a \in ep_table : ep_pick' = Some(Picked(a))
    /\ UNCHANGED <<ep_queue, ep_sent, ep_applied, ep_table, ep_state>>
    /\ UNCHANGED notEp

\* The call is over.
EpDone ==
    /\ ep_pick # None
    /\ ep_pick' = None
    /\ UNCHANGED <<ep_queue, ep_sent, ep_applied, ep_table, ep_state>>
    /\ UNCHANGED notEp

EpNext ==
    \/ EpSend
    \/ EpConsume
    \/ EpCall
    \/ EpDone

-----------------------------------------------------------------------------
(* The profile stack with its fallback (push_when_unready) *)

\* The switch of http_router: the stack used when the profile stack is not
\* ready, and the time after which it is used.
profile_when_unready_cache_age ==
    [secondary |-> "target", switch_after |-> ProfileIdleTimeout + MaxIdle]

profile_when_unready ==
    [secondary |-> "target", switch_after |-> ProfileIdleTimeout]

WuReq(st, by, waited) == [st |-> st, by |-> by, waited |-> waited]

\* SwitchReady::poll_ready: the primary is used while it is ready; when it
\* is not, a timer is started, and when the timer ends before the primary
\* is ready the secondary is used until the primary is ready.
RECURSIVE SwitchReady_poll_ready(_, _, _, _)
SwitchReady_poll_ready(state, timer, primary_ready, switch_after) ==
    CASE state = "Primary" ->
            IF primary_ready
            THEN [state |-> "Primary", timer |-> timer, ready |-> TRUE]
            ELSE SwitchReady_poll_ready("Waiting", 0, primary_ready, switch_after)
      [] state = "Waiting" ->
            IF primary_ready
            THEN [state |-> "Primary", timer |-> timer, ready |-> TRUE]
            ELSE IF timer < switch_after
            THEN [state |-> "Waiting", timer |-> timer, ready |-> FALSE]
            ELSE SwitchReady_poll_ready("Secondary", timer, primary_ready, switch_after)
      [] state = "Secondary" ->
            IF primary_ready
            THEN [state |-> "Primary", timer |-> timer, ready |-> TRUE]
            ELSE [state |-> "Secondary", timer |-> timer, ready |-> TRUE]

\* SwitchReady::call: the stack that gets the request.
SwitchReady_call(state, switch) ==
    IF state = "Primary" THEN "profile" ELSE switch.secondary

WuInit ==
    /\ wu_primary \in BOOLEAN
    /\ wu_state = "Primary"
    /\ wu_timer = 0
    /\ wu_req = [r \in Reqs |-> WuReq("idle", "", 0)]

\* The part when it is not under study.
WuIdle ==
    /\ wu_primary = FALSE
    /\ wu_state = "Primary"
    /\ wu_timer = 0
    /\ wu_req = [r \in Reqs |-> WuReq("idle", "", 0)]

WuWaiting == {r \in Reqs : wu_req[r].st = "waiting"}

\* What a poll of the switch gives now.
WuPolled ==
    SwitchReady_poll_ready(wu_state, wu_timer, wu_primary,
                           profile_when_unready.switch_after)

\* A request for the target arrives and waits for the stack to be ready.
WuArrive ==
    /\ \E r \in Reqs :
          /\ wu_req[r].st = "idle"
          /\ wu_req' = [wu_req EXCEPT ![r] = WuReq("waiting", "", 0)]
    /\ UNCHANGED <<wu_primary, wu_state, wu_timer>>
    /\ UNCHANGED notWu

\* The switch is polled for the oldest waiting request: the request is
\* dispatched when the switch is ready, and the timer runs otherwise.
WuPoll ==
    \E r \in WuWaiting :
       LET p == WuPolled
       IN  /\ \A o \in WuWaiting : wu_req[o].waited <= wu_req[r].waited
           /\ UNCHANGED wu_primary
           /\ UNCHANGED notWu
           /\ <<p.state, p.timer, p.ready>> # <<wu_state, wu_timer, FALSE>>
           /\ wu_state' = p.state
           /\ wu_timer' = p.timer
           /\ wu_req' = IF p.ready
                        THEN [wu_req EXCEPT ![r] =
                                 WuReq("done", SwitchReady_call(p.state, profile_when_unready),
                                       wu_req[r].waited)]
                        ELSE wu_req

\* The response of a request ends.
WuRespond ==
    /\ \E r \in Reqs :
          /\ wu_req[r].st = "done"
          /\ wu_req' = [wu_req EXCEPT ![r] = WuReq("idle", "", 0)]
    /\ UNCHANGED <<wu_primary, wu_state, wu_timer>>
    /\ UNCHANGED notWu

\* The profile stack becomes ready (the profile lookup ended); it stays so.
WuProfileReady ==
    /\ ~wu_primary
    /\ wu_primary' = TRUE
    /\ UNCHANGED <<wu_state, wu_timer, wu_req>>
    /\ UNCHANGED notWu

\* A tick passes while requests wait and a poll would change nothing.
WuTick ==
    /\ WuWaiting # {}
    /\ <<WuPolled.state, WuPolled.timer, WuPolled.ready>> = <<wu_state, wu_timer, FALSE>>
    /\ \A r \in WuWaiting : wu_req[r].waited <= ProfileIdleTimeout
    /\ wu_timer' = wu_timer + 1
    /\ wu_req' = [r \in Reqs |->
                     IF r \in WuWaiting
                     THEN [wu_req[r] EXCEPT !.waited = @ + 1] ELSE wu_req[r]]
    /\ UNCHANGED <<wu_primary, wu_state>>
    /\ UNCHANGED notWu

WuNext ==
    \/ WuArrive
    \/ WuPoll
    \/ WuRespond
    \/ WuProfileReady
    \/ WuTick

-----------------------------------------------------------------------------
(* The upstream connections of the inbound proxy *)

CnOrigs ==
    {[ip |-> i, port |-> p] : i \in {"10.4.0.7", "192.168.1.5", "127.0.0.1"},
                              p \in AcceptPorts}

\* The stacks that are built on self.connect.
CnVias == {"tcp_forward", "direct", "http_router"}

\* The TcpEndpoint a stack gives to connect for an accepted connection:
\* that of the accepted address, or that of the transport header.
CnEndpoints(via, orig) ==
    LET accept == TcpAccept_from(ListenAddrs(orig.port))
    IN  IF via = "direct"
        THEN {TcpEndpoint_from_header([accept EXCEPT !.detected = Some(DetectedHeader(p))]) :
                 p \in HeaderPorts}
        ELSE {TcpEndpoint_from(accept)}

CnInit ==
    /\ cn_orig \in CnOrigs
    /\ cn_via \in CnVias
    /\ cn_endpoint = None
    /\ cn_dialed = <<>>
    /\ cn_last = ""

\* The part when it is not under study.
CnIdle ==
    /\ cn_orig = [ip |-> "", port |-> 0]
    /\ cn_via = ""
    /\ cn_endpoint = None
    /\ cn_dialed = <<>>
    /\ cn_last = ""

\* The stack is built for the connection: the endpoint is fixed.
CnNewService ==
    /\ cn_via \in CnVias
    /\ cn_endpoint = None
    /\ \E e \in CnEndpoints(cn_via, cn_orig) : cn_endpoint' = Some(e)
    /\ UNCHANGED <<cn_orig, cn_via, cn_dialed, cn_last>>
    /\ UNCHANGED notCn

\* The connect stack is called: once by a forwarder, and again after a
\* failure by the HTTP client, which reconnects.
CnConnect ==
    /\ IsSome(cn_endpoint)
    /\ Len(cn_dialed) < MaxDials
    /\ \/ cn_dialed = <<>>
       \/ cn_via = "http_router" /\ cn_last \in {"error", "closed"}
    /\ cn_dialed' = Append(cn_dialed, tcp_connect_loopback(Unwrap(cn_endpoint)))
    /\ cn_last' \in {"ok", "error"}
    /\ UNCHANGED <<cn_orig, cn_via, cn_endpoint>>
    /\ UNCHANGED notCn

\* An established connection ends.
CnClose ==
    /\ cn_last = "ok"
    /\ cn_last' = "closed"
    /\ UNCHANGED <<cn_orig, cn_via, cn_endpoint, cn_dialed>>
    /\ UNCHANGED notCn

CnNext ==
    \/ CnNewService
    \/ CnConnect
    \/ CnClose

-----------------------------------------------------------------------------
(* The outbound TCP logical switch (Outbound::push_tcp_logical) *)

\* The snapshot of a profile: its logical address, or <<>> without one.
TlSnapshot(logical) == [logical |-> logical]
TlSnapshots == {TlSnapshot(None), TlSnapshot(Some("web.ns.svc:80")),
                TlSnapshot(Some("db.ns.svc:5432"))}
TlOrigDsts == {"10.0.0.41:5550", "10.0.0.42:80", "10.0.0.43:5432",
               "[fd00::44]:80", "127.0.0.1:4140"}

\* tcp::Logical
TlLogical(profile, orig_dst) == [profile |-> profile, orig_dst |-> orig_dst]

\* The targets of the two sides of the switch: Profile, and Endpoint.
TlProfile(addr, profile, orig_dst) ==
    [side |-> "A", addr |-> addr, profile |-> profile, orig_dst |-> orig_dst,
     tls |-> ""]
\* Endpoint::from((reason, logical)): the original destination, without
\* client TLS for that reason.
Endpoint_from(reason, logical) ==
    [side |-> "B", addr |-> logical.orig_dst, profile |-> None,
     orig_dst |-> logical.orig_dst, tls |-> reason]

\* The predicate of push_switch.
tcp_logical_switch_any_profile(logical) ==
    IF IsSome(logical.profile)
    THEN TlProfile(IF IsSome(Unwrap(logical.profile).logical)
                   THEN Unwrap(Unwrap(logical.profile).logical) ELSE logical.orig_dst,
                   logical.profile, logical.orig_dst)
    ELSE Endpoint_from("NotProvidedByServiceDiscovery", logical)

tcp_logical_switch(logical) ==
    IF IsSome(logical.profile) /\ IsSome(Unwrap(logical.profile).logical)
    THEN TlProfile(Unwrap(Unwrap(logical.profile).logical), logical.profile,
                   logical.orig_dst)
    ELSE Endpoint_from("NotProvidedByServiceDiscovery", logical)

TlInit ==
    /\ tl_logical \in {TlLogical(pr, o) :
                          pr \in {None} \cup {Some(sn) : sn \in TlSnapshots},
                          o \in TlOrigDsts}
    /\ tl_choice = None
    /\ tl_resolved = {}
    /\ tl_forwarded = {}

\* The part when it is not under study.
TlIdle ==
    /\ tl_logical = TlLogical(None, "")
    /\ tl_choice = None
    /\ tl_resolved = {}
    /\ tl_forwarded = {}

\* The profile's watch gets a new snapshot.
TlProfileUpdate ==
    /\ IsSome(tl_logical.profile)
    /\ \E sn \in TlSnapshots \ {Unwrap(tl_logical.profile)} :
          tl_logical' = [tl_logical EXCEPT !.profile = Some(sn)]
    /\ UNCHANGED <<tl_choice, tl_resolved, tl_forwarded>>
    /\ UNCHANGED notTl

\* new_service(logical) for a connection: the switch reads the snapshot
\* and picks the stack for the target.
TlNewService ==
    /\ tl_choice = None
    /\ tl_choice' = Some([seen |-> tl_logical, out |-> tcp_logical_switch(tl_logical)])
    /\ UNCHANGED <<tl_logical, tl_resolved, tl_forwarded>>
    /\ UNCHANGED notTl

\* The connection ends.
TlDone ==
    /\ tl_resolved # {} \/ tl_forwarded # {}
    /\ tl_choice' = None
    /\ tl_resolved' = {}
    /\ tl_forwarded' = {}
    /\ UNCHANGED tl_logical
    /\ UNCHANGED notTl

\* The profile stack: a resolution and a balancer for the concrete
\* address, behind the cache.
TlBalance ==
    /\ IsSome(tl_choice)
    /\ Unwrap(tl_choice).out.side = "A"
    /\ tl_resolved = {}
    /\ tl_resolved' = {Unwrap(tl_choice).out.addr}
    /\ UNCHANGED <<tl_logical, tl_choice, tl_forwarded>>
    /\ UNCHANGED notTl

\* The endpoint stack: the connection is forwarded to the endpoint.
TlForward ==
    /\ IsSome(tl_choice)
    /\ Unwrap(tl_choice).out.side = "B"
    /\ tl_forwarded = {}
    /\ tl_forwarded' = {[addr |-> Unwrap(tl_choice).out.addr,
                         tls |-> Unwrap(tl_choice).out.tls]}
    /\ UNCHANGED <<tl_logical, tl_choice, tl_resolved>>
    /\ UNCHANGED notTl

TlNext ==
    \/ TlProfileUpdate
    \/ TlNewService
    \/ TlBalance
    \/ TlForward
    \/ TlDone

-----------------------------------------------------------------------------
(* The test resolver: app/test/src/resolver.rs *)

\* The targets a test configures or resolves.
RsAddrs == {"web.ns.svc:80", "db.ns.svc:5432"}

\* What State.endpoints holds for a target: the receiving end of a
\* destination stream, a profile watch, or the absence of a profile.
RsStream(sid) == [tag |-> "stream", sid |-> sid]
RsProfileRx == [tag |-> "profile", sid |-> 0]
RsNoProfileRx == [tag |-> "no_profile", sid |-> 0]

\* An unbounded channel of updates: what was sent, what is in flight, what
\* the holder of the receiving end has taken, where the receiving end is
\* ("held" by the resolver, "taken" by a resolve call, "dropped"), whether
\* a sender is alive, how many resolve calls were given it, whether a send
\* on it failed, and whether it was made for an unknown target.
RsChannel(unknown) ==
    [sent |-> <<>>, queue |-> <<>>, recv |-> <<>>, rx |-> "held",
     tx |-> TRUE, handed |-> 0, failed |-> FALSE, unknown |-> unknown]

\* UnboundedSender::send as DstSender::update uses it: the update is
\* queued unless the receiving end is gone.
DstSender_update(ch, up) ==
    IF ch.rx = "dropped"
    THEN [ch EXCEPT !.failed = TRUE]
    ELSE [ch EXCEPT !.queue = Append(@, up), !.sent = Append(@, up)]

\* HashMap::insert drops the value it replaces; a replaced stream loses its
\* receiving end.
RsDropped(streams, old) ==
    IF IsSome(old) /\ Unwrap(old).tag = "stream"
    THEN [streams EXCEPT ![Unwrap(old).sid].rx = "dropped"]
    ELSE streams

\* Dst::endpoint_tx
endpoint_tx(endpoints, streams, addr) ==
    LET sid == Len(streams) + 1
    IN  [endpoints |-> [endpoints EXCEPT ![addr] = Some(RsStream(sid))],
         streams   |-> Append(RsDropped(streams, endpoints[addr]), RsChannel(FALSE)),
         res       |-> sid]

\* Profiles::profile_tx, Profiles::profile and Profiles::no_profile
Profiles_insert(endpoints, addr, rx) ==
    [endpoints EXCEPT ![addr] = Some(rx)]

\* The stream an unknown target gets: DoesNotExist is sent and the sender
\* is dropped when call returns.
RsUnknownStream ==
    [DstSender_update(RsChannel(TRUE), "DoesNotExist")
        EXCEPT !.tx = FALSE, !.rx = "taken", !.handed = 1]

Dst_call_keeps_entry(endpoints, only, streams, addr) ==
    IF IsSome(endpoints[addr])
    THEN LET sid == Unwrap(endpoints[addr]).sid
         IN  [endpoints |-> endpoints,
              only      |-> only,
              streams   |-> [streams EXCEPT ![sid].rx = "taken",
                                            ![sid].handed = @ + 1],
              res       |-> sid]
    ELSE [endpoints |-> endpoints,
          only      |-> FALSE,
          streams   |-> Append(streams, RsUnknownStream),
          res       |-> Len(streams) + 1]

\* <Dst as Service>::call
Dst_call(endpoints, only, streams, addr) ==
    IF IsSome(endpoints[addr])
    THEN LET sid == Unwrap(endpoints[addr]).sid
         IN  [endpoints |-> [endpoints EXCEPT ![addr] = None],
              only      |-> only,
              streams   |-> [streams EXCEPT ![sid].rx = "taken",
                                            ![sid].handed = @ + 1],
              res       |-> sid]
    ELSE [endpoints |-> endpoints,
          only      |-> FALSE,
          streams   |-> Append(streams, RsUnknownStream),
          res       |-> Len(streams) + 1]

\* <Profiles as Service>::call
Profiles_call(endpoints, only, addr) ==
    IF IsSome(endpoints[addr])
    THEN [endpoints |-> [endpoints EXCEPT ![addr] = None],
          only      |-> only,
          res       |-> IF Unwrap(endpoints[addr]).tag = "profile"
                        THEN Some("rx") ELSE None]
    ELSE [endpoints |-> endpoints, only |-> FALSE, res |-> None]

\* Handle::is_empty
Handle_is_empty(endpoints) == \A a \in DOMAIN endpoints : endpoints[a] = None

\* Handle::only_configured
Handle_only_configured(only) == only

\* The updates sent so far on all the channels a test holds a sender of.
RECURSIVE RsSent(_)
RsSent(streams) ==
    IF streams = <<>> THEN 0
    ELSE (IF Head(streams).unknown THEN 0 ELSE Len(Head(streams).sent))
         + RsSent(Tail(streams))

RsLogged(op, addr) == Append(rs_log, [op |-> op, addr |-> addr])

\* Resolver::default
RsInit ==
    /\ rs_kind \in {"dst", "profiles"}
    /\ rs_endpoints = [a \in RsAddrs |-> None]
    /\ rs_only = TRUE
    /\ rs_streams = <<>>
    /\ rs_log = <<>>

\* The part when it is not under study.
RsIdle ==
    /\ rs_kind = ""
    /\ rs_endpoints = [a \in RsAddrs |-> None]
    /\ rs_only = TRUE
    /\ rs_streams = <<>>
    /\ rs_log = <<>>

\* The test configures a destination and keeps the sender.
RsEndpointTx(addr) ==
    /\ rs_kind = "dst"
    /\ Len(rs_log) < MaxResolverCalls
    /\ LET r == endpoint_tx(rs_endpoints, rs_streams, addr)
       IN  /\ rs_endpoints' = r.endpoints
           /\ rs_streams' = r.streams
    /\ rs_log' = RsLogged("configure", addr)
    /\ UNCHANGED <<rs_kind, rs_only>>
    /\ UNCHANGED notRs

\* Dst::endpoint_exists: endpoint_tx, then add on the new sender.
RsEndpointExists(addr) ==
    /\ rs_kind = "dst"
    /\ Len(rs_log) < MaxResolverCalls
    /\ RsSent(rs_streams) < MaxUpdates
    /\ LET r == endpoint_tx(rs_endpoints, rs_streams, addr)
       IN  /\ rs_endpoints' = r.endpoints
           /\ rs_streams' = [r.streams EXCEPT
                                ![r.res] = DstSender_update(@, "Add")]
    /\ rs_log' = RsLogged("configure", addr)
    /\ UNCHANGED <<rs_kind, rs_only>>
    /\ UNCHANGED notRs

\* The stack under test resolves a destination.
RsDstCall(addr) ==
    /\ rs_kind = "dst"
    /\ Len(rs_log) < MaxResolverCalls
    /\ LET r == Dst_call(rs_endpoints, rs_only, rs_streams, addr)
       IN  /\ rs_endpoints' = r.endpoints
           /\ rs_only' = r.only
           /\ rs_streams' = r.streams
    /\ rs_log' = RsLogged("resolve", addr)
    /\ UNCHANGED rs_kind
    /\ UNCHANGED notRs

\* The test configures a profile, or the absence of one.
RsProfile(addr, rx) ==
    /\ rs_kind = "profiles"
    /\ Len(rs_log) < MaxResolverCalls
    /\ rs_endpoints' = Profiles_insert(rs_endpoints, addr, rx)
    /\ rs_log' = RsLogged("configure", addr)
    /\ UNCHANGED <<rs_kind, rs_only, rs_streams>>
    /\ UNCHANGED notRs

\* The stack under test looks a profile up.
RsProfilesCall(addr) ==
    /\ rs_kind = "profiles"
    /\ Len(rs_log) < MaxResolverCalls
    /\ LET r == Profiles_call(rs_endpoints, rs_only, addr)
       IN  /\ rs_endpoints' = r.endpoints
           /\ rs_only' = r.only
    /\ rs_log' = RsLogged("resolve", addr)
    /\ UNCHANGED <<rs_kind, rs_streams>>
    /\ UNCHANGED notRs

\* The test sends an update on a sender it holds.
RsSend(sid, up) ==
    /\ rs_streams[sid].tx
    /\ rs_streams[sid].rx = "dropped" \/ RsSent(rs_streams) < MaxUpdates
    /\ rs_streams' = [rs_streams EXCEPT ![sid] = DstSender_update(@, up)]
    /\ UNCHANGED <<rs_kind, rs_endpoints, rs_only, rs_log>>
    /\ UNCHANGED notRs

\* The stack under test takes the next update of a stream it was given.
RsRecv(sid) ==
    /\ rs_streams[sid].rx = "taken"
    /\ rs_streams[sid].queue # <<>>
    /\ rs_streams' = [rs_streams EXCEPT
                         ![sid].recv = Append(@, Head(rs_streams[sid].queue)),
                         ![sid].queue = Tail(@)]
    /\ UNCHANGED <<rs_kind, rs_endpoints, rs_only, rs_log>>
    /\ UNCHANGED notRs

\* The stack under test drops a stream it was given.
RsDropStream(sid) ==
    /\ rs_streams[sid].rx = "taken"
    /\ rs_streams' = [rs_streams EXCEPT ![sid].rx = "dropped"]
    /\ UNCHANGED <<rs_kind, rs_endpoints, rs_only, rs_log>>
    /\ UNCHANGED notRs

RsNext ==
    \/ \E addr \in RsAddrs : RsEndpointTx(addr)
    \/ \E addr \in RsAddrs : RsEndpointExists(addr)
    \/ \E addr \in RsAddrs : RsDstCall(addr)
    \/ \E addr \in RsAddrs, rx \in {RsProfileRx, RsNoProfileRx} : RsProfile(addr, rx)
    \/ \E addr \in RsAddrs : RsProfilesCall(addr)
    \/ \E sid \in DOMAIN rs_streams, up \in {"Add", "Remove"} : RsSend(sid, up)
    \/ \E sid \in DOMAIN rs_streams : RsRecv(sid)
    \/ \E sid \in DOMAIN rs_streams : RsDropStream(sid)

-----------------------------------------------------------------------------
(* Specifications *)

\* The gateway alone.
InitGateway == GwInit /\ TlsIdle /\ InIdle /\ CaIdle /\ SvIdle /\ ObIdle /\ RtIdle /\ PmIdle /\ CiIdle /\ EpIdle /\ WuIdle /\ CnIdle /\ TlIdle /\ RsIdle
SpecGateway == InitGateway /\ [][GwNext]_vars

\* Server TLS alone.
InitTls == TlsInit /\ GwIdle /\ InIdle /\ CaIdle /\ SvIdle /\ ObIdle /\ RtIdle /\ PmIdle /\ CiIdle /\ EpIdle /\ WuIdle /\ CnIdle /\ TlIdle /\ RsIdle
SpecTls == InitTls /\ [][TlsNext]_vars

\* Server TLS with a timer that fires: the detection timeout elapses unless
\* detection ends first.
SpecTlsTimed == InitTls /\ [][TlsNext]_vars /\ WF_vars(TlsTimeout)

\* The inbound server alone.
InitInbound == InInit /\ GwIdle /\ TlsIdle /\ CaIdle /\ SvIdle /\ ObIdle /\ RtIdle /\ PmIdle /\ CiIdle /\ EpIdle /\ WuIdle /\ CnIdle /\ TlIdle /\ RsIdle
SpecInbound == InitInbound /\ [][InNext]_vars

\* The per-target cache alone.
InitCache == CaInit /\ GwIdle /\ TlsIdle /\ InIdle /\ SvIdle /\ ObIdle /\ RtIdle /\ PmIdle /\ CiIdle /\ EpIdle /\ WuIdle /\ CnIdle /\ TlIdle /\ RsIdle
SpecCache == InitCache /\ [][CaNext]_vars

\* The HTTP server alone.
InitHttpServer == SvInit /\ GwIdle /\ TlsIdle /\ InIdle /\ CaIdle /\ ObIdle /\ RtIdle /\ PmIdle /\ CiIdle /\ EpIdle /\ WuIdle /\ CnIdle /\ TlIdle /\ RsIdle
SpecHttpServer == InitHttpServer /\ [][SvNext]_vars

\* Outbound request keying alone.
InitOutboundKey == ObInit /\ GwIdle /\ TlsIdle /\ InIdle /\ CaIdle /\ SvIdle /\ RtIdle /\ PmIdle /\ CiIdle /\ EpIdle /\ WuIdle /\ CnIdle /\ TlIdle /\ RsIdle
SpecOutboundKey == InitOutboundKey /\ [][ObNext]_vars

\* The inbound HTTP router alone.
InitRouter == RtInit /\ GwIdle /\ TlsIdle /\ InIdle /\ CaIdle /\ SvIdle /\ ObIdle /\ PmIdle /\ CiIdle /\ EpIdle /\ WuIdle /\ CnIdle /\ TlIdle /\ RsIdle
SpecRouter == InitRouter /\ [][RtNext]_vars

\* The discovery allow-list alone.
InitPermit == PmInit /\ GwIdle /\ TlsIdle /\ InIdle /\ CaIdle /\ SvIdle /\ ObIdle /\ RtIdle /\ CiIdle /\ EpIdle /\ WuIdle /\ CnIdle /\ TlIdle /\ RsIdle
SpecPermit == InitPermit /\ [][PmNext]_vars

\* The client identity of a TLS peer alone.
InitClientId == CiInit /\ GwIdle /\ TlsIdle /\ InIdle /\ CaIdle /\ SvIdle /\ ObIdle /\ RtIdle /\ PmIdle /\ EpIdle /\ WuIdle /\ CnIdle /\ TlIdle /\ RsIdle
SpecClientId == InitClientId /\ [][CiNext]_vars

\* Endpoint discovery alone.
InitEndpoints == EpInit /\ GwIdle /\ TlsIdle /\ InIdle /\ CaIdle /\ SvIdle /\ ObIdle /\ RtIdle /\ PmIdle /\ CiIdle /\ WuIdle /\ CnIdle /\ TlIdle /\ RsIdle
SpecEndpoints == InitEndpoints /\ [][EpNext]_vars

\* The profile stack with its fallback alone.
InitWhenUnready == WuInit /\ GwIdle /\ TlsIdle /\ InIdle /\ CaIdle /\ SvIdle /\ ObIdle /\ RtIdle /\ PmIdle /\ CiIdle /\ EpIdle /\ CnIdle /\ TlIdle /\ RsIdle
SpecWhenUnready == InitWhenUnready /\ [][WuNext]_vars

\* The upstream connections of the inbound proxy alone.
InitConnect == CnInit /\ GwIdle /\ TlsIdle /\ InIdle /\ CaIdle /\ SvIdle /\ ObIdle /\ RtIdle /\ PmIdle /\ CiIdle /\ EpIdle /\ WuIdle /\ TlIdle /\ RsIdle
SpecConnect == InitConnect /\ [][CnNext]_vars

\* The outbound TCP logical switch alone.
InitTcpLogical == TlInit /\ GwIdle /\ TlsIdle /\ InIdle /\ CaIdle /\ SvIdle /\ ObIdle /\ RtIdle /\ PmIdle /\ CiIdle /\ EpIdle /\ WuIdle /\ CnIdle /\ RsIdle
SpecTcpLogical == InitTcpLogical /\ [][TlNext]_vars

\* The test resolver alone.
InitResolver == RsInit /\ GwIdle /\ TlsIdle /\ InIdle /\ CaIdle /\ SvIdle /\ ObIdle /\ RtIdle /\ PmIdle /\ CiIdle /\ EpIdle /\ WuIdle /\ CnIdle /\ TlIdle
SpecResolver == InitResolver /\ [][RsNext]_vars

-----------------------------------------------------------------------------
(* Gateway: claims *)

\* The text of a parameter before its first '=' (all of it without one).
ParamKey(kv) ==
    IF IndexOf(kv, "=") = 0 THEN kv ELSE SubSeq(kv, 1, IndexOf(kv, "=") - 1)

\* The text of a parameter after its first '='.
ParamRest(kv) == SubSeq(kv, IndexOf(kv, "=") + 1, Len(kv))

\* A Forwarded value carries the parameter by=id.
HasByParam(v, id) ==
    \E i \in 1..Len(Split(v, ";")) :
        Split(v, ";")[i] = <<"b", "y", "=">> \o id

\* A Forwarded value is visible ASCII, and its first parameter whose key is
\* exactly "by" has the value id, the value ending at the next '='.
FirstByIs(v, id) ==
    LET ps == Split(v, ";") IN
    /\ \A k \in 1..Len(v) : v[k] # Opaque
    /\ \E i \in 1..Len(ps) :
          /\ ParamKey(ps[i]) = <<"b", "y">>
          /\ \A j \in 1..(i - 1) : ParamKey(ps[j]) # <<"b", "y">>
          /\ IndexOf(ps[i], "=") # 0
          /\ ParamKey(ParamRest(ps[i])) = id

\* A call on an Outbound gateway has been made and answered.
OutboundCalled == gw.tag = "Outbound" /\ IsSome(request)

GatewayLoop == HttpError("gateway_loop", "")

\* C1, as stated: on an Outbound gateway, a request with any Forwarded value
\* that carries by=<local identity> fails with gateway_loop and is not given
\* to the outbound service.
C1_AnyByParamFails ==
    OutboundCalled =>
        ((\E i \in 1..Len(Unwrap(request).forwarded) :
              HasByParam(Unwrap(request).forwarded[i], gw.local_identity))
         => response = GatewayLoop /\ outbound_req = None)

\* C1, amended: on an Outbound gateway every request is checked against its
\* incoming Forwarded values only: if some incoming value that is visible
\* ASCII has, as its first parameter named exactly "by", the local identity,
\* the call fails with gateway_loop and the outbound service is not called;
\* a request with no such incoming value is not failed as a loop.
C1_LoopCheck ==
    OutboundCalled =>
        LET hit == \E i \in 1..Len(Unwrap(request).forwarded) :
                       FirstByIs(Unwrap(request).forwarded[i], gw.local_identity)
        IN /\ hit => response = GatewayLoop /\ outbound_req = None
           /\ response = GatewayLoop => hit

\* A loop found on the second of two Forwarded values.
C1_Witness ==
    /\ OutboundCalled
    /\ Unwrap(request).forwarded = <<FwdOther, FwdForBy>>
    /\ response = GatewayLoop
    /\ outbound_req = None


\* The request the gateway gave to its outbound service.
Dispatched == Unwrap(outbound_req)

\* The gateways that new_service makes for the local identity.
LocalGateways ==
    {new_service(local_id, profile, target).gw :
        profile \in Profiles, target \in InboundTargets}

\* C38: the last Forwarded value of a request the gateway dispatched is the
\* gateway's stamp, whose by parameter is the local identity; given again,
\* headers kept, to any gateway of the same local identity that dispatches
\* at all, the request fails with gateway_loop and is not dispatched a
\* second time.
C38_DispatchedOnce ==
    IsSome(outbound_req) =>
        LET fwd == Dispatched.forwarded
            last == fwd[Len(fwd)]
        IN /\ fwd = Unwrap(request).forwarded \o <<last>>
           /\ IsSome(to_str(last))
           /\ fwd_by(Unwrap(to_str(last))) = Some(local_id.name)
           /\ \A g \in LocalGateways :
                 g.tag = "Outbound" =>
                    /\ call(g, Dispatched).response = GatewayLoop
                    /\ call(g, Dispatched).outbound = None

\* A request that came through two other hops was dispatched.
C38_Witness ==
    /\ IsSome(outbound_req)
    /\ Unwrap(request).forwarded = <<FwdOther, FwdUpper>>
    /\ Len(Dispatched.forwarded) = 3
    /\ local_id.name = IdGw

\* The incoming values that name the gateway gw in their first by
\* parameter, and those that do not: a later by parameter, a byte that is
\* not visible ASCII, a key of another case or with a space before it,
\* another gateway.
FwdNaming == {FwdLoop, FwdForBy, FwdTwoEq}
FwdSkipped == {FwdOther, FwdSecondBy, FwdOpaque, FwdUpper, FwdSpace}

\* C39: of each Forwarded value only the first parameter whose key is
\* exactly by is compared, its value ending at the next '='; a by parameter
\* after the first, a value that is not visible ASCII and a value without a
\* by parameter are passed over: a request made of such values only is
\* dispatched with its values kept, and a request fails as a loop exactly
\* when one of its values names the gateway in its first by parameter.
C39_FirstByOnly ==
    OutboundCalled /\ gw.local_identity = IdGw =>
        LET fwd == Unwrap(request).forwarded
            Values == {fwd[i] : i \in 1..Len(fwd)}
        IN /\ response = GatewayLoop <=> Values \cap FwdNaming # {}
           /\ Values \subseteq FwdSkipped =>
                 /\ IsSome(outbound_req)
                 /\ SubSeq(Dispatched.forwarded, 1, Len(fwd)) = fwd
           /\ \A v \in Values \cap {FwdSecondBy} :
                 fwd_by(v) = Some(<<"o", "t">>)
           /\ \A v \in Values \cap {FwdTwoEq} : fwd_by(v) = Some(IdGw)
           /\ \A v \in Values \cap {FwdUpper, FwdSpace} : fwd_by(v) = None
           /\ \A v \in Values \cap {FwdOpaque} : to_str(v) = None

\* A request whose values are a later by parameter and a value that is not
\* visible ASCII was dispatched.
C39_Witness ==
    /\ OutboundCalled
    /\ gw.local_identity = IdGw
    /\ Unwrap(request).forwarded = <<FwdSecondBy, FwdOpaque>>
    /\ IsSome(outbound_req)

\* The inputs of new_service, once it has run.
Built == gw.tag # "Uninit"
BuiltProfile == Unwrap(gw_target).profile
BuiltTarget == Unwrap(gw_target).target
BothIdentities == BuiltTarget.tls_client_id.some /\ local_id.some
ProfileName == IF IsSome(BuiltProfile) THEN Unwrap(BuiltProfile).name ELSE None

\* C6: the gateway is NoIdentity whenever the client identity or the local
\* identity is absent, whatever the profile and the destination; no outbound
\* service is built for it, and every request fails with identity_required
\* without a call to an outbound service.
C6_NoIdentity ==
    /\ (Built /\ ~BothIdentities) => gw = GwNoIdentity /\ outbound_built = <<>>
    /\ (gw.tag = "NoIdentity" /\ IsSome(request)) =>
           /\ response = HttpError("identity_required", "no identity")
           /\ outbound_req = None
           /\ outbound_built = <<>>

\* A gateway without a client identity, for a named profile, has answered.
C6_Witness ==
    /\ Built
    /\ local_id.some /\ ~BuiltTarget.tls_client_id.some
    /\ IsSome(ProfileName)
    /\ gw.tag = "NoIdentity"
    /\ IsSome(request)
    /\ response.kind = "identity_required"

\* C7: with both identities, a profile name puts the gateway in the Outbound
\* state with the host made of that name and the port of the destination;
\* without a profile name the gateway is BadDomain(name) when the destination
\* is a name and NoAuthority when it is not.
C7_HostFromProfile ==
    (Built /\ BothIdentities) =>
        IF IsSome(ProfileName)
        THEN /\ gw.tag = "Outbound"
             /\ gw.host_header =
                    as_http_authority([name |-> Unwrap(ProfileName),
                                       port |-> BuiltTarget.dst.port])
             /\ Len(outbound_built) = 1
             /\ outbound_built[1].orig_dst.port = BuiltTarget.dst.port
        ELSE IF BuiltTarget.dst.kind = "Name"
             THEN gw = GwBadDomain(BuiltTarget.dst.name)
             ELSE gw = GwNoAuthority

\* An Outbound gateway whose destination carries another name and a port
\* that shows in the host.
C7_Witness ==
    /\ Built /\ BothIdentities
    /\ BuiltTarget.dst = [kind |-> "Name", name |-> NameWeb, port |-> 443]
    /\ gw.tag = "Outbound"
    /\ gw.host_header = <<"s", "v", ":", "4", "4", "3">>

\* C8: a gateway never changes after construction; the three error states
\* are always ready and answer every request with their own error without
\* a call to an outbound service; an Outbound gateway reports what its inner
\* service's poll_ready reports, errors included.
C8_Terminal ==
    /\ [][gw.tag # "Uninit" => gw' = gw]_vars
    /\ [](gw.tag \in {"NoAuthority", "NoIdentity", "BadDomain"} =>
            /\ polled.res \in {"NotPolled", "Ok"}
            /\ outbound_built = <<>>
            /\ IsSome(request) =>
                  /\ outbound_req = None
                  /\ response =
                        CASE gw.tag = "NoAuthority" -> HttpError("not_found", "no authority")
                          [] gw.tag = "NoIdentity" -> HttpError("identity_required", "no identity")
                          [] gw.tag = "BadDomain" -> HttpError("not_found", "bad domain"))
    /\ [](gw.tag = "Outbound" => polled.res = polled.inner)

\* A BadDomain gateway has answered a request.
C8_Witness ==
    /\ gw = GwBadDomain(NameWeb)
    /\ IsSome(request)
    /\ response = HttpError("not_found", "bad domain")
    /\ outbound_req = None

\* The Forwarded value of the format by=<local>;for=<peer>;host=<host>;proto=https
ForwardedFormat(local, peer, host) ==
    <<"b", "y", "=">> \o local \o <<";", "f", "o", "r", "=">> \o peer
    \o <<";", "h", "o", "s", "t", "=">> \o host
    \o <<";", "p", "r", "o", "t", "o", "=", "h", "t", "t", "p", "s">>

\* C9: a dispatched request carries the Forwarded values it came with, in
\* order, followed by one value by=<local_id>;for=<peer_id>;host=<host>;
\* proto=https made of the inputs of the construction.
C9_ForwardedAppended ==
    IsSome(outbound_req) =>
        /\ Unwrap(outbound_req).forwarded =
               Unwrap(request).forwarded
               \o <<ForwardedFormat(local_id.name, BuiltTarget.tls_client_id.name,
                                    gw.host_header)>>
        /\ gw.forwarded_header =
               ForwardedFormat(local_id.name, BuiltTarget.tls_client_id.name,
                               gw.host_header)

\* A request with two Forwarded values has been dispatched with three.
C9_Witness ==
    /\ IsSome(outbound_req)
    /\ Unwrap(request).forwarded = <<FwdOther, FwdSecondBy>>
    /\ Len(Unwrap(outbound_req).forwarded) = 3

\* C10: a dispatched HTTP/1.1 or HTTP/1.0 request has exactly one Host
\* value, the resolved authority; a dispatched request of another version
\* has the Host values it came with.
C10_HostRewritten ==
    IsSome(outbound_req) =>
        IF Unwrap(request).version \in {"HTTP_11", "HTTP_10"}
        THEN Unwrap(outbound_req).host =
                 <<as_http_authority([name |-> Unwrap(ProfileName),
                                      port |-> BuiltTarget.dst.port])>>
        ELSE Unwrap(outbound_req).host = Unwrap(request).host

\* An HTTP/1.0 request that came with a Host value has been dispatched.
C10_Witness ==
    /\ IsSome(outbound_req)
    /\ Unwrap(request).version = "HTTP_10"
    /\ Unwrap(request).host = <<HostOld>>
    /\ Unwrap(outbound_req).host # <<HostOld>>

-----------------------------------------------------------------------------
(* Server TLS: claims *)

\* The result of detect(), once it has returned.
Detected == dpc = "done"
DetectedSni == Unwrap(det).sni
DetectedIo == Unwrap(det).io

\* The bytes the stream given to the next layer yields: the prefix, then
\* what detection left unread on the connection.
Downstream(io) == io.prefix \o SubSeq(wire, io.consumed + 1, Len(wire))

\* C2: on every exit of detect() the stream given to the next layer yields
\* the bytes of the connection, those read into the buffer first.
C2_Lossless ==
    Detected =>
        /\ Downstream(DetectedIo) = wire
        /\ DetectedIo.prefix = SubSeq(wire, 1, consumed)

\* The service of NewHandshake has been built.
HsBuilt == hs.tag # "Uninit"

\* C3: when no TLS is terminated the reason is the true one: Disabled when
\* the local identity is absent, NoClientHello when it is present and no
\* server name was detected; no handshake takes place and the inner service
\* is given the stream as it is.
C3_FaithfulReason ==
    (HsBuilt /\ (identity = None \/ DetectedSni = None)) =>
        /\ hs = HsDisabled(NoTls(IF identity = None THEN "Disabled"
                                 ELSE "NoClientHello"))
        /\ accept_out = None
        /\ IsSome(inner_io) =>
              Unwrap(inner_io) = [side |-> "Left", io |-> DetectedIo]

\* C4: with a local identity and a detected server name: when they are
\* equal the service is Enabled, its call performs the handshake and, once
\* accepted, builds the inner service with Established{client_id, alpn} and
\* gives it the TLS stream; when they differ the inner service is built with
\* Passthru{sni}, no handshake takes place and the inner service is given
\* the stream as it is.
C4_HandshakeBySni ==
    (HsBuilt /\ IsSome(identity) /\ IsSome(DetectedSni)) =>
        IF DetectedSni = identity
        THEN /\ hs = HsEnabled(Unwrap(identity))
             /\ hpc = "done" => IsSome(accept_out)
             /\ (IsSome(accept_out) /\ Unwrap(accept_out).accepted) =>
                   /\ inner_built = <<TlsEstablished(Unwrap(accept_out).client_id,
                                                     Unwrap(accept_out).alpn)>>
                   /\ inner_io = Some([side |-> "Right", io |-> DetectedIo])
             /\ accept_out = None => inner_built = <<>> /\ inner_io = None
        ELSE /\ hs = HsDisabled(TlsPassthru(Unwrap(DetectedSni)))
             /\ inner_built = <<TlsPassthru(Unwrap(DetectedSni))>>
             /\ accept_out = None
             /\ hpc # "handshaking"
             /\ IsSome(inner_io) =>
                   Unwrap(inner_io) = [side |-> "Left", io |-> DetectedIo]

\* A handshake for the local name has been accepted from an identified
\* client, and the inner service called.
C4_Witness ==
    /\ HsBuilt
    /\ DetectedSni = Some(LocalName)
    /\ accept_out = Some([accepted |-> TRUE, client_id |-> Some("client.test"),
                          alpn |-> Some("h2")])
    /\ IsSome(inner_io)

\* C5: a failed handshake makes the connection's future an error, and the
\* inner service is neither built nor called; on the Enabled path the inner
\* service exists only after an accepted handshake.
C5_HandshakeFailure ==
    /\ (IsSome(accept_out) /\ ~Unwrap(accept_out).accepted) =>
           /\ conn_result = "Err"
           /\ inner_built = <<>>
           /\ inner_io = None
    /\ (hs.tag = "Enabled" /\ (inner_built # <<>> \/ IsSome(inner_io))) =>
           IsSome(accept_out) /\ Unwrap(accept_out).accepted

\* C40: without a local identity no handshake is started, whatever server
\* name was detected, and every descriptor given to the inner service says
\* that no TLS was terminated; the service is Enabled only with a local
\* identity and a detected server name equal to it.
C40_NoIdentityNoHandshake ==
    /\ identity = None =>
          /\ hs.tag # "Enabled"
          /\ hpc # "handshaking"
          /\ accept_out = None
          /\ \A i \in 1..Len(inner_built) : inner_built[i].tag = "None"
          /\ HsBuilt => hs.tls # None /\ Unwrap(hs.tls).tag = "None"
          /\ IsSome(inner_io) => Unwrap(inner_io).side = "Left"
    /\ hs.tag = "Enabled" =>
          /\ IsSome(identity)
          /\ DetectedSni = identity
          /\ hs.identity = identity

\* Without a local identity, a connection whose ClientHello named the
\* proxy went to the inner service as it was.
C40_Witness ==
    /\ identity = None
    /\ HsBuilt
    /\ DetectedSni = Some(LocalName)
    /\ IsSome(inner_io)
    /\ inner_built # <<>>

\* A handshake has failed.
C5_Witness ==
    /\ hs.tag = "Enabled"
    /\ IsSome(accept_out) /\ ~Unwrap(accept_out).accepted
    /\ conn_result = "Err"

\* The peer has sent nothing and has not closed its side.
Silent == avail = 0 /\ ~peer_closed

\* Detection was ended by the timeout.
TimedOut == dpc = "failed"

\* C16: while the peer stays silent the detection timeout ends detection;
\* the future of the connection then fails with DetectTimeout, no
\* Handshake service and no inner service is built or called, and the
\* result, once set, is set for good (one error per connection).
C16_DetectTimeout ==
    /\ ([]Silent => <>TimedOut)
    /\ [](TimedOut <=> conn_result = "DetectTimeout")
    /\ [](TimedOut => /\ det = None
                      /\ hs = HsUninit
                      /\ hpc = "idle"
                      /\ inner_built = <<>>
                      /\ inner_io = None
                      /\ accept_out = None)
    /\ [][TimedOut => (TimedOut' /\ conn_result' = conn_result)]_vars

\* The timeout has ended the detection of a connection whose peer sent
\* nothing.
C16_Witness == Silent /\ TimedOut /\ conn_result = "DetectTimeout"

\* C17: detection ends with the server name as soon as the parser succeeds,
\* with no server name when the input is not a ClientHello, when the peer
\* closes, or when the buffer is exhausted with the ClientHello still
\* incomplete, or with DetectTimeout; the buffer never holds more than
\* BUFFER_CAPACITY bytes, and a server name is found only in a ClientHello
\* that has arrived whole.
C17_DetectionBounded ==
    /\ Len(buf) <= BufferCap
    /\ (dpc = "read" /\ Len(buf) = BufferCap) => parse_sni(buf).ok
    /\ dpc = "failed" => conn_result = "DetectTimeout"
    /\ Detected =>
          /\ det_path \in {"peek", "buffered", "eof", "exhausted"}
          /\ det_path \in {"eof", "exhausted"} => DetectedSni = None
          /\ det_path = "eof" => peer_closed
          /\ IsSome(DetectedSni) =>
                parse_sni(SubSeq(wire, 1, avail)) = [ok |-> TRUE, sni |-> DetectedSni]

-----------------------------------------------------------------------------
(* Inbound server: claims *)

\* The connection has ended: served, forwarded or failed.
InDone == in_stack = <<>> /\ in_result # InPending

\* The original destination port of the connection.
InPort == in_addrs.port

\* The trace has an entry of this layer.
InRan(kind, arg) ==
    \E i \in DOMAIN in_trace : in_trace[i].kind = kind /\ in_trace[i].arg = arg

\* The loopback address of the original destination port.
InLoopback == [ip |-> "127.0.0.1", port |-> InPort]

\* C11: a connection to a port of disable_protocol_detection_for_ports
\* passes no detector and is forwarded by the alternate of the port-skip
\* switch, which connects to the loopback address of that port and to
\* nothing else; a connection to any other port passes TLS detection right
\* after the switch.
C11_PortSkip ==
    /\ InPort \in disable_ports =>
          /\ \A i \in DOMAIN in_trace : in_trace[i].kind # "detect"
          /\ in_path \in {"server", "skipped"}
          /\ InDone =>
                /\ in_result \in {InResult("tcp_forward", "skipped", "", ""),
                                  InResult("", "", "", "Connect")}
                /\ in_conn = <<InLoopback>>
    /\ (InPort \notin disable_ports /\ in_trace # <<>>) =>
          /\ in_trace[1].out = "primary"
          /\ in_path # "skipped"
          /\ Len(in_trace) >= 2 =>
                in_trace[2].kind = "detect" /\ in_trace[2].arg = "tls"

\* A connection to a port without detection has been forwarded.
C11_Witness ==
    /\ InPort \in disable_ports
    /\ in_result = InResult("tcp_forward", "skipped", "", "")

\* The TLS descriptor of the connection says that no client identity is
\* known: no TLS (whatever the reason), or TLS established with an
\* anonymous client.
InAnonymous ==
    /\ IsSome(in_target.tls)
    /\ \/ Unwrap(in_target.tls).tag = "None"
       \/ /\ Unwrap(in_target.tls).tag = "Established"
          /\ Unwrap(in_target.tls).client_id = None

\* The connection went no further than the identity filter, which failed it.
InRejectedForIdentity ==
    /\ ~InRan("switch", "PreventLoop")
    /\ ~InRan("detect", "http")
    /\ ~InRan("detect", "header")
    /\ in_conn = <<>>
    /\ in_result.handler = ""
    /\ in_result.error \in {"", "IdentityRequired"}
    /\ InRan("filter", "RequireIdentityForPorts") =>
          in_result = InResult("", "", "", "IdentityRequired")

\* C12 as stated: every connection to a port of
\* require_identity_for_inbound_ports whose TLS descriptor carries no client
\* identity is rejected with the identity-required error, before the
\* loop-prevent switch, HTTP detection or a connect.
C12_AnyAnonymousRejected ==
    (InPort \in require_ports /\ InAnonymous) =>
        /\ InRejectedForIdentity
        /\ InDone => in_result = InResult("", "", "", "IdentityRequired")

\* C12 amended: the same, for the connections whose port is not also in
\* disable_protocol_detection_for_ports.
C12_IdentityRequired ==
    (InPort \in require_ports /\ InPort \notin disable_ports /\ InAnonymous) =>
        /\ InRejectedForIdentity
        /\ InDone => in_result = InResult("", "", "", "IdentityRequired")

\* An anonymous TLS connection to an identity-required port was rejected.
C12_Witness ==
    /\ InPort \in require_ports
    /\ in_target.tls = Some(TlsEstablished(None, None))
    /\ in_result = InResult("", "", "", "IdentityRequired")

\* The stage of the inbound pipeline a trace entry belongs to (0: none).
StageRank(e) ==
    CASE e.kind = "switch" /\ e.arg = "SkipByPort" -> 1
      [] e.kind = "detect" /\ e.arg = "tls" -> 2
      [] e.kind = "filter" -> 3
      [] e.kind = "switch" /\ e.arg = "PreventLoop" -> 4
      [] e.kind = "detect" /\ e.arg = "http" -> 5
      [] e.kind \in {"http_server", "tcp_forward"} -> 6
      [] OTHER -> 0

\* The stages that ran before the entry at position j.
StagesBefore(j) == {StageRank(in_trace[i]) : i \in 1..(j - 1)} \ {0}

\* C13: the port-skip switch acts first; no stage runs twice, and every
\* stage that runs finds that the stages before it in the order, and only
\* those, have run.  Forwarding alone may follow an earlier decision at
\* once: that of the port-skip switch for a port without detection, and
\* that of the loop-prevent switch for a direct connection with a
\* transport header.
C13_StageOrder ==
    /\ in_trace # <<>> => StageRank(in_trace[1]) = 1
    /\ \A j \in DOMAIN in_trace :
          LET r == StageRank(in_trace[j]) IN
          r # 0 =>
             /\ \A i \in 1..(j - 1) : StageRank(in_trace[i]) # r
             /\ \/ StagesBefore(j) = 1..(r - 1)
                \/ /\ in_trace[j].kind = "tcp_forward"
                   /\ \/ InPort \in disable_ports /\ StagesBefore(j) = {1}
                      \/ InPort = inbound_port /\ StagesBefore(j) = 1..4

\* A connection has passed all six stages.
C13_Witness ==
    /\ InDone
    /\ {StageRank(in_trace[i]) : i \in DOMAIN in_trace} \ {0} = 1..6

\* The connection took the alternate of the loop-prevent switch.
InDirect == \E i \in DOMAIN in_trace :
                /\ in_trace[i].kind = "switch"
                /\ in_trace[i].arg = "PreventLoop"
                /\ in_trace[i].out = "alt"

\* What HTTP detection found for the connection.
InHttpDetected(out) ==
    \E i \in DOMAIN in_trace :
        in_trace[i].kind = "detect" /\ in_trace[i].arg = "http"
        /\ in_trace[i].out = out

\* C14: without an HTTP preamble a connection of the regular path is
\* forwarded to the loopback address of its port, and one of the direct
\* path fails with ConnectionRefused and nothing is connected to; with an
\* HTTP preamble the connection is served by the HTTP server of the
\* detected version.
C14_NoHttpPreamble ==
    InDone =>
        /\ (InHttpDetected("none") /\ ~InDirect) =>
              /\ in_result \in {InResult("tcp_forward", "forward", "", ""),
                                InResult("", "", "", "Connect")}
              /\ in_conn = <<InLoopback>>
        /\ (InHttpDetected("none") /\ InDirect) =>
              /\ in_result = InResult("", "", "", NonOpaqueRefused)
              /\ in_conn = <<>>
        /\ \A v \in {"Http1", "H2"} : InHttpDetected(v) =>
              /\ in_result.handler = "http_server"
              /\ in_result.version = v
              /\ in_conn = <<>>

\* A direct connection without HTTP preamble has been refused.
C14_Witness ==
    /\ InDirect
    /\ InHttpDetected("none")
    /\ in_result = InResult("", "", "", NonOpaqueRefused)

\* The stacks of the direct path and of the regular path.
DirectPaths == {"direct", "direct_http", "refuse"}
RegularPaths == {"forward"}

\* The connection is handled by the gateway's HTTP server or by the
\* forwarder of the direct path.
InHandledDirect ==
    \/ in_result.handler = "http_server" /\ in_result.inner = "http_gateway"
    \/ in_result.handler = "tcp_forward" /\ in_result.inner = "direct"

\* C15 as stated: a connection to the proxy's own inbound port is handled
\* by the direct stack only, every other connection by the regular stack
\* only.
C15_OwnPortOnlyDirect ==
    in_result.handler # "" =>
        IF InPort = inbound_port
        THEN InHandledDirect
        ELSE ~InHandledDirect /\ in_path \notin DirectPaths

\* C15 amended: of the connections that reach the loop-prevent switch,
\* those to the proxy's own inbound port pass the direct stack only and are
\* handled by it; all the others never enter the direct stack and are
\* never handled by the gateway.
C15_LoopPrevent ==
    /\ InRan("switch", "PreventLoop") =>
          /\ (InPort = inbound_port) = InDirect
          /\ InDirect => in_path \in DirectPaths
          /\ (InDirect /\ in_result.handler # "") => InHandledDirect
    /\ ~InDirect =>
          /\ in_path \notin DirectPaths
          /\ ~InHandledDirect
          /\ ~InRan("detect", "header")

\* A connection to the own port has reached the gateway's HTTP server.
C15_Witness ==
    /\ InPort = inbound_port
    /\ in_result.handler = "http_server"
    /\ in_result.inner = "http_gateway"

-----------------------------------------------------------------------------
(* Per-target cache: claims *)

\* Both callers of a pair returned from get_or_make and hold a service.
CaBothHold(p) == \A c \in p : ca_call[c].pc = "hold"

\* A caller uses instance i: holds a handle to it, streams a response body of
\* it, or waits for the completed construction of it.
CaUsed(i) ==
    \E c \in Callers :
        \/ ca_call[c].svc = i
        \/ ca_call[c].rsp = i
        \/ ca_call[c].pc = "wait" /\ Inst(ca_call[c].key, ca_call[c].join) = i

\* The instances of key k that the cache constructed and neither evicted nor
\* saw dropped.
CaOwned(k) == {i \in ca_tracked \ CaEvictedInsts : i[1] = k}

\* C18: get_or_make calls for one key whose windows overlap observe the same
\* instance, and the only construction for the key performed up to their
\* return is the one that made that instance; at most one construction per
\* key is in flight, and the cache owns at most one instance per key.
C18_SingleFlight ==
    /\ \A p \in ca_overlap :
          CaBothHold(p) =>
             \A c \in p, d \in p :
                /\ ca_call[c].key = ca_call[d].key
                /\ ca_call[c].svc = ca_call[d].svc
                /\ ca_call[c].svc \in ca_made
                /\ ca_call[c].b1 = ca_call[c].svc[2]
                /\ ca_call[c].b0 >= ca_call[c].svc[2] - 1
    /\ \A k \in Keys :
          /\ Cardinality({c \in Callers : ca_call[c].pc = "make" /\ ca_call[c].key = k}) <= 1
          /\ Cardinality(CaOwned(k)) <= 1

C18_Witness ==
    \E p \in ca_overlap :
        /\ Cardinality(p) = 2
        /\ CaBothHold(p)
        /\ \A c \in p : ca_call[c].svc = Inst("a", 1) /\ ca_call[c].b1 = 1
        /\ \E c \in p : ca_call[c].b0 = 0
        /\ \E c \in p : ca_call[c].b0 = 1
        /\ ca_builds["a"] = 1

\* C19: a constructed entry stays in the cache while less than
\* cache_max_idle_age has passed since its last readiness, and is gone once
\* that time has passed: no entry is older, and no entry was evicted younger.
\* The evicted instance is dropped unless someone still uses it, and an entry
\* made for its key afterwards is a later construction.
C19_IdleEviction ==
    /\ \A k \in Keys :
          (IsSome(ca_map[k]) /\ ca_map[k][1].state = "ready") =>
             /\ ca_map[k][1].idle <= MaxIdle
             /\ Inst(k, ca_map[k][1].n) \in ca_tracked
    /\ \A e \in ca_evicted :
          /\ e.idle >= MaxIdle
          /\ ~CaHolds(ca_map, e.inst[1], e.inst)
          /\ ~CaUsed(e.inst) => e.inst \notin ca_tracked
          /\ IsSome(ca_map[e.inst[1]]) =>
                /\ ca_map[e.inst[1]][1].n > e.inst[2]
                /\ ca_builds[e.inst[1]] >= ca_map[e.inst[1]][1].n

C19_Witness ==
    /\ Inst("a", 1) \in CaEvictedInsts
    /\ CaHolds(ca_map, "a", Inst("a", 2))
    /\ ca_tracked = {Inst("a", 2)}
    /\ ca_builds["a"] = 2
    /\ \E c \in Callers : ca_call[c].svc = Inst("a", 2)

\* C20: an instance with a response body in flight is not dropped, evicted or
\* not and with or without the client that made the call; an instance nobody
\* uses is alive only as an entry of the cache that is not yet idle for
\* longer than cache_max_idle_age.
C20_InFlightKept ==
    /\ \A c \in Callers : ca_call[c].rsp # NoInst => ca_call[c].rsp \in ca_tracked
    /\ \A i \in ca_tracked :
          ~CaUsed(i) =>
             /\ CaHolds(ca_map, i[1], i)
             /\ ca_map[i[1]][1].idle <= MaxIdle

C20_Witness ==
    \E c \in Callers :
        /\ ca_call[c].rsp = Inst("a", 1)
        /\ ca_call[c].svc = NoInst
        /\ Inst("a", 1) \in CaEvictedInsts
        /\ Inst("a", 1) \in ca_tracked
        /\ CaHolds(ca_map, "a", Inst("a", 2))

-----------------------------------------------------------------------------
(* HTTP server: claims *)

\* The request was answered.
SvDone(r) == sv_req[r].st = "done"

\* The request failed with error e.
SvFailedWith(r, e) == SvDone(r) /\ sv_req[r].err = Some(e)

C26_ErrorStatus ==
    \A r \in Reqs :
        (SvDone(r) /\ IsSome(sv_req[r].err)) =>
           LET e == Unwrap(sv_req[r].err)
               out == sv_req[r].out
           IN  /\ Len(out) = 1
               /\ out[1].tag = "Rsp"
               /\ e.kind \in {"not_found", "bad_domain", "no_authority", "gateway_loop"}
                     => out[1].status = 502
               /\ e.kind = "identity_required" => out[1].status = 403
               /\ e.kind \in {"fail_fast", "load_shed"} => out[1].status = 503
               /\ e.kind = "dispatch_timeout" => out[1].status = 504
               /\ e \in GatewayErrors \cup DispatchErrors \cup {FailFastError, ConnectError}

C26_Witness ==
    \E r \in Reqs, q \in Reqs :
        /\ SvFailedWith(r, FailFastError)
        /\ sv_req[r].out = <<Rsp(503, "fail_fast")>>
        /\ SvFailedWith(q, HttpError("identity_required", "no identity"))
        /\ sv_req[q].out = <<Rsp(403, "identity_required")>>

\* C27: FailFast fails a call only when the inner service has been unready
\* for the timeout or longer, and then with the fail-fast error; it passes a
\* call to the inner service only when that service is ready; a call that
\* comes while the inner service has been unready for less than the timeout
\* waits.
C27_FailFast ==
    \A r \in Reqs :
        /\ sv_req[r].how = "failfast" =>
              /\ sv_req[r].inner = "unready"
              /\ sv_req[r].waited >= MaxDispatch
              /\ SvFailedWith(r, FailFastError)
        /\ sv_req[r].how = "inner" =>
              /\ sv_req[r].inner = "ready"
              /\ sv_req[r].err # Some(FailFastError)
        /\ (sv_req[r].st = "pending" /\ sv_inner = "unready" /\ sv_unready < MaxDispatch) =>
              ~ENABLED SvDispatchOf(r)

C27_Witness ==
    \E r \in Reqs, q \in Reqs :
        /\ sv_req[r].how = "failfast"
        /\ sv_req[r].waited = MaxDispatch
        /\ sv_req[q].how = "inner"
        /\ sv_req[q].out = <<Rsp(200, "")>>
        /\ sv_inner = "ready"

-----------------------------------------------------------------------------
(* Outbound request keying: claims *)

\* The sources of the logical destination, in the order of their priority.
ObSources(req) == <<req.override, req.authority, req.host>>

\* Source i of the request is an address.
ObValid(req, i) ==
    /\ IsSome(ObSources(req)[i])
    /\ Addr_from_str(Unwrap(ObSources(req)[i])).ok

\* C22: the logical destination of a request is the address of the first of
\* l5d-dst-override, authority and Host that is an address, and the socket's
\* original destination when none is; orig_target is the socket's original
\* destination in every case.
C22_LogicalPriority ==
    IsSome(ob_logical) =>
       LET req == Unwrap(ob_req)
           l == Unwrap(ob_logical)
       IN  /\ l.orig_target = ob_addrs
           /\ \A i \in 1 .. 3 :
                 (ObValid(req, i) /\ \A j \in 1 .. (i - 1) : ~ObValid(req, j)) =>
                    l.dst = Addr_from_str(Unwrap(ObSources(req)[i])).addr
           /\ (\A i \in 1 .. 3 : ~ObValid(req, i)) => l.dst = ob_addrs

C22_Witness ==
    /\ IsSome(ob_logical)
    /\ Unwrap(ob_req) = ObRequest(Some("not an address"), Some("10.0.0.9:8080"),
                                  Some("web.ns.svc:80"))
    /\ Unwrap(ob_logical) = Logical(AddrSocket("10.0.0.9", 8080), ob_addrs)
    /\ ob_addrs = AddrSocket("10.0.0.41", 5550)

-----------------------------------------------------------------------------
(* Inbound HTTP router: claims *)

\* The position of a layer in the trace, 0 when it did not act.
RtRan(layer) == IndexOf(rt_trace, layer)

\* C23: the router keys the request as it arrived, override header
\* included, before the header is removed, and the request the per-target
\* service gets is the arrived one without the header.
C23_KeyedBeforeStrip ==
    /\ RtRan("strip_header") > 0 =>
          /\ RtRan("NewRouter") > 0
          /\ RtRan("NewRouter") < RtRan("strip_header")
    /\ IsSome(rt_key) =>
          /\ Unwrap(rt_key) = RequestTarget_recognize(rt_addr, rt_req)
          /\ ObValid(rt_req, 1) =>
                Unwrap(rt_key) = Addr_from_str(Unwrap(rt_req.override)).addr
    /\ IsSome(rt_delivered) =>
          /\ IsSome(rt_key)
          /\ Unwrap(rt_delivered).override = None
          /\ Unwrap(rt_delivered) = [rt_req EXCEPT !.override = None]

C23_Witness ==
    /\ rt_req = ObRequest(Some("web.ns.svc:80"), Some("10.0.0.9:8080"), None)
    /\ rt_key = Some(AddrName("web.ns.svc", 80))
    /\ rt_delivered = Some(ObRequest(None, Some("10.0.0.9:8080"), None))

-----------------------------------------------------------------------------
(* Discovery allow-list: claims *)

\* The name ends with the labels of the suffix.
PmEndsWith(name, sfx) ==
    \E i \in 0..Len(name) : SubSeq(name, i + 1, Len(name)) = sfx

\* The address's leading bits are the network's, in the same family.
PmWithin(ip, net) ==
    /\ ip.v = net.v
    /\ \E i \in 0..Len(ip.bits) : SubSeq(ip.bits, 1, i) = net.bits

\* C24: a named address is permitted iff a configured suffix contains its
\* name, a socket address iff a configured network of its family contains
\* its IP; a permitted target is returned unchanged, a rejected one yields
\* the rejection that carries it, and the inner service is not called.
C24_AllowList ==
    IsSome(pm_out) =>
        LET addr == Unwrap(pm_addr)
            out == Unwrap(pm_out)
        IN  /\ addr.kind = "Name" =>
                  (out.ok <=> \E sfx \in pm_suffixes : PmEndsWith(addr.name, sfx))
            /\ addr.kind = "Socket" =>
                  (out.ok <=> \E net \in pm_networks : PmWithin(addr.ip, net))
            /\ out.ok => out.target = addr /\ pm_inner = Some(addr)
            /\ ~out.ok => out.rejected = <<addr>> /\ pm_inner = None

\* An IPv6 address whose bits match only an IPv4 network is rejected, and a
\* name under a configured suffix is permitted.
C24_Witness ==
    /\ pm_networks = {Ip(4, <<1>>)}
    /\ pm_addr = Some(SocketAddr(Ip(6, <<1, 0>>), 80))
    /\ pm_out = Some(DiscoveryRejected(SocketAddr(Ip(6, <<1, 0>>), 80)))
    /\ pm_inner = None

-----------------------------------------------------------------------------
(* Client identity: claims *)

\* The first certificate of the peer, or <<>>.
CiFirstCert ==
    IF IsSome(ci_certs) /\ Unwrap(ci_certs) # <<>>
    THEN Some(Unwrap(ci_certs)[1]) ELSE None

\* The first DNS name of the first certificate, or <<>>.
CiFirstName ==
    IF /\ IsSome(CiFirstCert)
       /\ Unwrap(CiFirstCert).parses
       /\ IsSome(Unwrap(CiFirstCert).dns_names)
       /\ Unwrap(Unwrap(CiFirstCert).dns_names) # <<>>
    THEN Some(Unwrap(Unwrap(CiFirstCert).dns_names)[1]) ELSE None

\* C25: after an accepted handshake the client identity is the first DNS
\* name of the peer's first certificate when that name is no wildcard; a
\* peer with no certificate, an unparsable one, no DNS name or a wildcard
\* as first name is established without an identity.
C25_ClientIdentity ==
    IsSome(ci_tls) =>
        /\ Unwrap(ci_tls).tag = "Established"
        /\ Unwrap(ci_tls).client_id =
              IF IsSome(CiFirstName) /\ Unwrap(CiFirstName).kind = "DNSName"
              THEN Some(Unwrap(CiFirstName).name) ELSE None

\* The identity is the first name although the second certificate and the
\* second name differ; and a wildcard as first name gives none.
C25_Witness ==
    /\ IsSome(ci_tls)
    /\ ci_certs = Some(<<Certificate(TRUE, Some(<<DNSName("client.test"), Wildcard("*.test")>>)),
                         Certificate(TRUE, Some(<<DNSName("other.test")>>))>>)
    /\ Unwrap(ci_tls).client_id = Some("client.test")

-----------------------------------------------------------------------------
(* Endpoint discovery: claims *)

\* DoesNotExist was applied.
EpGone == \E i \in 1..Len(ep_applied) : ep_applied[i].tag = "DoesNotExist"

\* C28: in every step, a Reset(S) taken by the consumer makes S the table,
\* an Add or a Remove changes the named addresses only, a DoesNotExist
\* makes the target not-found for good, and a new call goes to an address
\* of the table, or fails with NotFound when the target is not-found.
C28_EndpointUpdates ==
    [][/\ Len(ep_applied') > Len(ep_applied) /\ ~EpGone =>
            LET up == Head(ep_queue)
            IN  /\ up.tag = "Reset" => ep_table' = up.addrs
                /\ up.tag = "Add" =>
                      /\ up.addrs \subseteq ep_table'
                      /\ ep_table' \ up.addrs = ep_table \ up.addrs
                /\ up.tag = "Remove" =>
                      /\ up.addrs \cap ep_table' = {}
                      /\ ep_table' \ up.addrs = ep_table \ up.addrs
                /\ up.tag = "DoesNotExist" => ep_state' = "not_found"
       /\ EpGone => ep_state = "not_found" /\ ep_state' = "not_found" /\ ep_table' = {}
       /\ ep_pick = None /\ ep_pick' # None =>
            IF EpGone
            THEN ep_pick' = Some(NotFound)
            ELSE Unwrap(ep_pick').ok /\ Unwrap(ep_pick').addr \in ep_table
      ]_vars

\* After Add then Reset, a call got the one address of the Reset.
C28_Witness ==
    /\ ep_applied = <<Add({"10.0.0.41:5550"}), Reset({"10.0.0.42:5550"})>>
    /\ ep_table = {"10.0.0.42:5550"}
    /\ ep_pick = Some(Picked("10.0.0.42:5550"))

-----------------------------------------------------------------------------
(* Profile stack with fallback: claims *)

\* C29: no request waits for the profile stack longer than the profile idle
\* timeout: a request that waited that long is served by the stack of the
\* target without profile, and a request is served by the profile stack
\* only when that stack is ready.
C29_ProfileFallback ==
    \A r \in Reqs :
        /\ wu_req[r].waited <= ProfileIdleTimeout
        /\ wu_req[r].st = "waiting" /\ wu_req[r].waited = ProfileIdleTimeout =>
              /\ ~ENABLED WuTick
              /\ ~wu_primary => WuPolled.ready /\ WuPolled.state = "Secondary"
        /\ wu_req[r].st = "done" => wu_req[r].by \in {"profile", "target"}
        /\ wu_req[r].by = "profile" => wu_primary

\* A request waited for the whole timeout and was served by the target
\* stack.
C29_Witness ==
    \E r \in Reqs :
        /\ wu_req[r] = WuReq("done", "target", ProfileIdleTimeout)
        /\ wu_state = "Secondary"

-----------------------------------------------------------------------------
(* Detection and the way the bytes arrive: claims *)

\* The classification of a byte stream: what parse_sni says of its
\* shortest prefix that is not Incomplete, and no SNI when there is none.
Classify(w) ==
    LET oks == {k \in 1..Len(w) : parse_sni(SubSeq(w, 1, k)).ok}
    IN  IF oks = {} THEN None
        ELSE LET k == CHOOSE i \in oks : \A j \in oks : i <= j
             IN  parse_sni(SubSeq(w, 1, k)).sni

\* C30: the classification a finished detection gives is that of the bytes
\* of the connection, however they were split across reads.
C30_SplitIndependent ==
    IsSome(det) => Unwrap(det).sni = Classify(wire)

\* The same for the detector installed by new(): DetectSni.
C30_DetectSniOnly ==
    det_impl = "DetectSni" => C30_SplitIndependent

-----------------------------------------------------------------------------
(* Gateway: the outbound service it builds *)

\* C31: an outbound service is built at most once, and exactly when the
\* gateway is in the Outbound state, which is when both identities and a
\* profile name are present; its target has the unroutable address with the
\* port of the inbound destination, the HTTP version of the inbound target
\* and the same profile.  No error state has an outbound service.
C31_OutboundBuiltOnce ==
    /\ Len(outbound_built) <= 1
    /\ ~Built => outbound_built = <<>>
    /\ Built =>
          /\ gw.tag = "Outbound" <=> BothIdentities /\ IsSome(ProfileName)
          /\ gw.tag = "Outbound" <=> Len(outbound_built) = 1
          /\ gw.tag \in {"NoIdentity", "BadDomain", "NoAuthority"} =>
                outbound_built = <<>>
          /\ Len(outbound_built) = 1 =>
                /\ outbound_built[1].orig_dst = [ip |-> <<0, 0, 0, 0>>,
                                                 port |-> BuiltTarget.dst.port]
                /\ outbound_built[1].protocol = BuiltTarget.http_version
                /\ outbound_built[1].profile = BuiltProfile

\* An Outbound gateway that served a request still has its one outbound
\* service.
C31_Witness ==
    /\ Built
    /\ gw.tag = "Outbound"
    /\ Len(outbound_built) = 1
    /\ outbound_req # None

-----------------------------------------------------------------------------
(* Inbound server: the direct path *)

\* What transport-header detection found for the connection.
InHeaderDetected(out) ==
    \E i \in DOMAIN in_trace :
        in_trace[i].kind = "detect" /\ in_trace[i].arg = "header"
        /\ in_trace[i].out = out

\* C32: a direct connection with a transport header passes no HTTP
\* detection and no HTTP server, and is forwarded to the loopback address
\* of the port the header names; HTTP detection on the direct path and the
\* gateway's HTTP server come only after a detection that found no
\* transport header.
C32_DirectHeaderForwarded ==
    /\ InHeaderDetected("Header") =>
          /\ InDirect
          /\ ~InRan("detect", "http")
          /\ ~InRan("http_server", "http_gateway")
          /\ in_result.handler # "http_server"
          /\ in_path = "direct"
          /\ InDone =>
                /\ in_result \in {InResult("tcp_forward", "direct", "", ""),
                                  InResult("", "", "", "Connect")}
                /\ \E p \in HeaderPorts :
                      /\ in_target.port = p
                      /\ in_conn = <<[ip |-> "127.0.0.1", port |-> p]>>
    /\ (InDirect /\ InRan("detect", "http")) => InHeaderDetected("none")
    /\ (in_result.handler = "http_server" /\ in_result.inner = "http_gateway") =>
          InHeaderDetected("none")
    /\ ~InDone => in_conn = <<>>

\* A direct connection with a transport header was forwarded to the port
\* of the header, which is not the port it was accepted on.
C32_Witness ==
    /\ InHeaderDetected("Header")
    /\ in_result = InResult("tcp_forward", "direct", "", "")
    /\ in_conn = <<[ip |-> "127.0.0.1", port |-> 9090]>>
    /\ InPort # 9090

-----------------------------------------------------------------------------
(* Upstream connections of the inbound proxy: claims *)

\* C33: every address the inbound proxy dials, for forwarding and for
\* HTTP, is 127.0.0.1 with the port of the endpoint; the IP address of the
\* original destination is not dialed.
C33_LoopbackOnly ==
    \A i \in DOMAIN cn_dialed :
        /\ cn_dialed[i].ip = "127.0.0.1"
        /\ cn_dialed[i].port = Unwrap(cn_endpoint).port
        /\ cn_via # "direct" => cn_dialed[i].port = cn_orig.port
        /\ cn_orig.ip # "127.0.0.1" => cn_dialed[i].ip # cn_orig.ip

\* The HTTP client of a connection for another host has dialed twice.
C33_Witness ==
    /\ cn_via = "http_router"
    /\ cn_orig = [ip |-> "10.4.0.7", port |-> 8080]
    /\ cn_dialed = <<[ip |-> "127.0.0.1", port |-> 8080],
                     [ip |-> "127.0.0.1", port |-> 8080]>>

-----------------------------------------------------------------------------
(* Outbound TCP logical switch: claims *)

\* The target the switch saw for the connection, and what it returned.
TlSeen == Unwrap(tl_choice).seen
TlOut == Unwrap(tl_choice).out

\* The target had a profile whose snapshot carried a logical address.
TlHasLogicalAddr ==
    /\ TlSeen.profile # None
    /\ Unwrap(TlSeen.profile).logical # None

\* C34: a target goes to the profile stack iff it has a profile whose
\* snapshot, when the switch reads it, carries a logical address; any other
\* target is forwarded to its original destination as an endpoint without
\* client TLS, the reason being that discovery provided none, and nothing
\* is resolved for it.
C34_LogicalSwitch ==
    /\ tl_choice = None => tl_resolved = {} /\ tl_forwarded = {}
    /\ IsSome(tl_choice) =>
          /\ TlOut.side = "A" <=> TlHasLogicalAddr
          /\ TlHasLogicalAddr =>
                /\ TlOut.addr = Unwrap(Unwrap(TlSeen.profile).logical)
                /\ TlOut.profile = TlSeen.profile
                /\ TlOut.orig_dst = TlSeen.orig_dst
                /\ tl_forwarded = {}
                /\ tl_resolved \subseteq {TlOut.addr}
          /\ ~TlHasLogicalAddr =>
                /\ TlOut.side = "B"
                /\ TlOut.addr = TlSeen.orig_dst
                /\ TlOut.tls = "NotProvidedByServiceDiscovery"
                /\ tl_resolved = {}
                /\ tl_forwarded \subseteq
                      {[addr |-> TlSeen.orig_dst,
                        tls |-> "NotProvidedByServiceDiscovery"]}

\* A target with a profile that had no logical address was forwarded,
\* although the profile has one by now.
C34_Witness ==
    /\ IsSome(tl_choice)
    /\ TlSeen.profile = Some(TlSnapshot(None))
    /\ tl_logical.profile = Some(TlSnapshot(Some("web.ns.svc:80")))
    /\ tl_forwarded = {[addr |-> tl_logical.orig_dst,
                        tls |-> "NotProvidedByServiceDiscovery"]}

-----------------------------------------------------------------------------
(* Test resolver: what its handle reports *)

\* The calls of one kind made for a target, as positions in the log.
RsCalls(op, addr) ==
    {i \in DOMAIN rs_log : rs_log[i].op = op /\ rs_log[i].addr = addr}
RsConfigured == {a \in RsAddrs : RsCalls("configure", a) # {}}

\* The resolve calls made for a target since it was last configured.
RsResolvedSince(addr) ==
    {i \in RsCalls("resolve", addr) : \A j \in RsCalls("configure", addr) : j < i}

\* Some target was resolved that had not been configured before.
RsResolvedUnconfigured ==
    \E a \in RsAddrs : \E i \in RsCalls("resolve", a) :
        \A j \in RsCalls("configure", a) : i < j

\* C35: is_empty is true exactly when every configured target was resolved
\* exactly once.  Fails: a target resolved a second time leaves the map
\* empty.
C35_IsEmptyExactlyOnce ==
    Handle_is_empty(rs_endpoints) <=>
        \A a \in RsConfigured : Cardinality(RsResolvedSince(a)) = 1

\* C36: only_configured is true exactly when no target was resolved that
\* had never been configured.  Fails: the second resolve of a configured
\* target clears it.
C36_OnlyConfigured ==
    Handle_only_configured(rs_only) <=> ~RsResolvedUnconfigured

\* The flag is never set again once cleared.
C36_NeverTrueAgain ==
    [][~rs_only => ~rs_only']_vars

\* C37: a resolve that finds no stream gets one whose only update is
\* DoesNotExist; every resolve gets a stream of its own and no stream is
\* given twice; what a stream delivers is what was sent on it, in order;
\* a send fails only when the receiving end is gone.
C37_Streams ==
    /\ rs_kind = "dst" =>
          Cardinality({i \in DOMAIN rs_streams : rs_streams[i].handed > 0})
             = Cardinality({i \in DOMAIN rs_log : rs_log[i].op = "resolve"})
    /\ \A i \in DOMAIN rs_streams :
          LET ch == rs_streams[i]
          IN  /\ ch.handed <= 1
              /\ ch.unknown =>
                    /\ ch.sent = <<"DoesNotExist">>
                    /\ ~ch.tx
                    /\ ch.handed = 1
              /\ ch.recv \o ch.queue = ch.sent
              /\ ch.failed => ch.rx = "dropped"
              /\ \A a \in RsAddrs :
                    rs_endpoints[a] = Some(RsStream(i)) => ch.rx = "held"

\* A target was resolved twice: the second stream said DoesNotExist and
\* ended, the first delivered its two updates in order.
C37_Witness ==
    /\ Len(rs_streams) = 2
    /\ rs_streams[1].recv = <<"Add", "Remove">>
    /\ rs_streams[2].unknown
    /\ rs_streams[2].recv = <<"DoesNotExist">>
    /\ rs_only = FALSE

=============================================================================
